---- MODULE Spec2Model ----
(***************************************************************************)
(* Model of the polling-and-reply engine of the Shopee AI customer service *)
(* bot: the per-conversation pipeline of ShopeeChatBot (main.py) with its  *)
(* three persisted stores (RepliedMessagesTracker, ConversationHistory-    *)
(* Manager, StatsTracker), and the in-memory pipeline of ShopeeBot         *)
(* (shopee_bot.py).                                                        *)
(*                                                                         *)
(* Texts (conversation ids, buyer messages, replies) are sequences of      *)
(* one-character strings.  hashlib.md5(...).hexdigest() is modelled as its *)
(* argument: two contents have the same digest iff they are equal.         *)
(* The 'timestamp' field of a stored turn and the start_time /             *)
(* last_reply_time fields of the stats record are left out: nothing reads  *)
(* them back.                                                              *)
(***************************************************************************)
EXTENDS Integers, Sequences, FiniteSets, TLC

(***************************************************************************)
(* Bounds of the model.                                                    *)
(***************************************************************************)
\* Replies delivered in one behaviour.
MaxReplies == 2
\* Errors the stats record counts before the model stops raising.
MaxErrors == 1

(***************************************************************************)
(* Program constants.                                                      *)
(***************************************************************************)
\* main.py:84; read from the environment, default 10.  The model runs the
\* configuration MAX_CONVERSATION_HISTORY=1 (a window of two turns).
MAX_CONVERSATION_HISTORY == 1
\* main.py:164 keeps the last 1000 hashes when saving; the model is scaled so
\* that MaxReplies replies exceed the cap.
HASH_KEEP == 1

\* The fixed reply generate_ai_response returns when the OpenAI call raises
\* (main.py:348), as a short text.
FALLBACK_REPLY == <<"f", "b">>
\* The replies the backend can produce (response.choices[0]...strip()).
AiReplies == {<<"y", "o">>}
\* The character of a simulated typo (random.choice('abc...z'), main.py:385).
WrongChar == "x"

(***************************************************************************)
(* The page: two conversations the chat list can show, the messages a      *)
(* buyer can have sent last, and the three ways get_conversation_id finds  *)
(* an id.  The URL of conversation A carries its id; conversation B is     *)
(* identified by the attribute of its active list element, and when that   *)
(* lookup comes up empty its id is built from the clock.                   *)
(***************************************************************************)
PhysConvs == {"A", "B"}
Msgs == {<<"h", "i">>, <<"o", "k">>}
NoMessage == <<>>
\* What the latest buyer message of conversation p can be.
LatestOf(p) == IF p = "A" THEN Msgs ELSE {<<"h", "i">>}
\* The instants at which the fallback of get_conversation_id reads the clock.
Instants == {0, 1}
IdSources(p) == IF p = "A" THEN {"url"} ELSE {"attr", "fallback"}

\* The digits the regex [/=](\d{10,}) finds in the URL of conversation p.
UrlId(p) == IF p = "A" THEN <<"1", "1">> ELSE <<"2", "2">>
\* The data-id (or id) attribute of the active chat element of p.
AttrId(p) == IF p = "A" THEN <<"a">> ELSE <<"b">>
\* f"conv_{datetime.now().strftime('%Y%m%d%H%M%S')}" at time t.
FallbackId(t) == <<"c", "_", ToString(t)>>

Ids == {UrlId("A"), AttrId("B")} \cup {FallbackId(t) : t \in Instants}

VARIABLES
  replied_hashes,   \* RepliedMessagesTracker.replied_hashes (in memory)
  replied_file,     \* 'hashes' of replied_messages.json
  conversations,    \* ConversationHistoryManager.conversations (in memory)
  conv_file,        \* conversation_history.json
  stats,            \* StatsTracker.stats (in memory)
  stats_file,       \* bot_stats.json
  pc,               \* position of the worker inside process_conversation
  run,              \* locals of the current process_conversation call
  inputBox,         \* text in the chat input box of the page
  now,              \* the clock as the fallback id reads it: readings so far
  sendCount,        \* history: replies delivered to the buyer, per dedup key
  nSent,            \* history: replies delivered to the buyer, in all
  answeredAs,       \* history: per (conversation, text), the keys it was answered under
  lifeMarked,       \* history: keys mark_replied recorded in this process
  everMarked,       \* history: keys mark_replied ever recorded
  crashWin,         \* history: keys whose run crashed after send, unpersisted
  appended,         \* history: turns passed to add_message, per conversation id
  impl,             \* the program that runs: ShopeeChatBot or ShopeeBot
  processed_messages, \* ShopeeBot.processed_messages (in memory only)
  messages_processed, \* ShopeeBot.messages_processed
  replies_sent,     \* ShopeeBot.replies_sent
  errors_count,     \* ShopeeBot.errors_count
  botPc,            \* position of the worker inside ShopeeBot.process_chat
  chat,             \* locals of the current process_chat call
  botInput,         \* text in the chat input box of ShopeeBot's page
  enginePc,         \* position of the worker inside run / main_loop
  stop_event,       \* the stop signal (threading.Event, or Ctrl+C for main.py)
  context,          \* the browser context: "none", "open" or "closed"
  location,         \* page.url, as the set of the marker words it contains
  polls,            \* polls of the login wait done so far
  unread_chats,     \* the list get_unread_chats returned for this cycle
  waitLeft,         \* seconds of the interval wait still to sleep
  pageUnread,       \* the conversations the page shows as unread
  lag,              \* history: longest sleep begun after the stop signal
  stayedAuth,       \* history: every location seen so far was a login page
  cycleFound,       \* history: conversations unread on the page at cycle start
  cycleRun,         \* history: conversations run through the pipeline this cycle
  lastStep,         \* history: how the last pipeline run of the engine went, and
                    \* the seconds main_loop slept after it before the next cycle
  answered,         \* history: conversations this process replied to
  page,             \* the elements of the chat page, as the locator sees them
  located,          \* what the locator returned for that page
  appFile,          \* app.py: the content of conversations.json
  req,              \* app.py: the request each server thread is handling
  appSent,          \* history: replies send_shopee_message delivered, per message
  appAsked,         \* history: messages submitted to the reply backend
  appAdded,         \* history: turns add_to_conversation calls have written, per user
  nRequests,        \* history: requests the server has taken up
  is_running,       \* BotController.is_running
  ctl_stop_event,   \* BotController.stop_event: TRUE when set
  bot_thread,       \* BotController.bot_thread: the thread last started, 0 for None
  worker,           \* where each thread of _run_bot is
  gui,              \* where the window's thread is
  stopCalled,       \* history: threads that were current when stop() set the event
  stopInChat,       \* history: stop_event was set inside a process_chat call of
                    \* the pass through the list that is under way
  failed_attempts,  \* RateLimiter.failed_attempts
  blocked_ips,      \* RateLimiter.blocked_ips: the addresses that have an entry
  lock,             \* RateLimiter.lock: TRUE when locked
  limCall,          \* where each thread that calls the rate limiter is
  userRow,          \* failed_attempts and locked_until of the user's row (database.py)
  login_attempts,   \* login_attempts[ip] of api/index.py
  wallClock         \* datetime.now(), in minutes

stores == <<replied_hashes, replied_file, conversations, conv_file, stats, stats_file>>
ghosts == <<sendCount, nSent, answeredAs, lifeMarked, everMarked, crashWin, appended>>
chatVars == <<stores, pc, run, inputBox, now, ghosts>>
botVars == <<processed_messages, messages_processed, replies_sent, errors_count,
             botPc, chat, botInput>>
engineVars == <<enginePc, stop_event, context, location, polls, unread_chats,
                waitLeft, pageUnread, lag, stayedAuth, cycleFound, cycleRun,
                lastStep, answered>>
locVars == <<page, located>>
appVars == <<appFile, req, appSent, appAsked, appAdded, nRequests>>
\* The variables of the programs around the two bots.
ctlVars == <<is_running, ctl_stop_event, bot_thread, worker, gui, stopCalled>>
\* The variables of the login protection of the two servers.
secVars == <<failed_attempts, blocked_ips, lock, limCall, userRow, login_attempts,
             wallClock>>
extVars == <<appVars, ctlVars, stopInChat, secVars>>
vars == <<impl, chatVars, botVars, engineVars, locVars, extVars>>

\* The client addresses and the threads that call the rate limiter.
IPs == {"ip1", "ip2"}
Callers == {1, 2}
\* A thread outside the rate limiter; ret is what its last call returned and
\* n the count of failures its last record_failed_attempt came to.
NoCall == [pc |-> "idle", op |-> "", ip |-> "", ret |-> "none", n |-> 0]
\* NULL / None, and a time, as the value of locked_until / lockout_until.
NoTime == <<>>
At(t) == <<t>>
\* The row create_user inserts (database.py:178-183, 88-89): failed_attempts 0 and
\* locked_until NULL.  streak is a history field: the wrong passwords in a
\* row that were checked since the last success or the last expired lockout.
NewUserRow == [failed_attempts |-> 0, locked_until |-> NoTime, streak |-> 0]
\* The default of login_attempts (api/index.py:79), with the same history.
NewLoginRecord == [attempts |-> 0, lockout_until |-> NoTime, streak |-> 0]

(***************************************************************************)
(* RepliedMessagesTracker (main.py:140-184)                                *)
(***************************************************************************)
\* _generate_hash: md5 of f"{conversation_id}:{message}".
generate_hash(conversation_id, message) == conversation_id \o <<":">> \o message

AllKeys == {generate_hash(c, m) : c \in Ids, m \in Msgs}

\* A tracker that recognises nothing.
is_replied_never(hashes, conversation_id, message) == FALSE

\* is_replied: the key of (conversation_id, message) is in the set.
is_replied(hashes, conversation_id, message) ==
  generate_hash(conversation_id, message) \in hashes

\* list(self.replied_hashes)[-1000:] : the last HASH_KEEP elements of a set
\* listed in the iteration order of a Python set of strings, which no insertion
\* order determines: any HASH_KEEP of them.
SavedHashes(hashes) ==
  IF Cardinality(hashes) <= HASH_KEEP
    THEN {hashes}
    ELSE {S \in SUBSET hashes : Cardinality(S) = HASH_KEEP}

\* A _load that forgets the file.
LoadHashes_empty(file) == {}

\* _load: set(data.get('hashes', []))
LoadHashes(file) == file

(***************************************************************************)
(* ConversationHistoryManager (main.py:191-243)                            *)
(***************************************************************************)
Window == 2 * MAX_CONVERSATION_HISTORY

\* lst[-n:]
LastN(lst, n) == IF Len(lst) <= n THEN lst ELSE SubSeq(lst, Len(lst) - n + 1, Len(lst))

Turn(role, content) == [role |-> role, content |-> content]

\* An add_message that trims to the oldest turns.
add_message_keep_oldest(convs, conversation_id, role, content) ==
  LET old == IF conversation_id \in DOMAIN convs THEN convs[conversation_id] ELSE <<>>
      new == Append(old, Turn(role, content))
      kept == IF Len(new) > Window THEN SubSeq(new, 1, Window) ELSE new
  IN  (conversation_id :> kept) @@ convs

\* An add_message that keeps the history of the one conversation only.
add_message_drops_others(convs, conversation_id, role, content) ==
  LET old == IF conversation_id \in DOMAIN convs THEN convs[conversation_id] ELSE <<>>
      new == Append(old, Turn(role, content))
  IN  (conversation_id :> LastN(new, Window))

\* add_message: create the list if absent, append, keep the last Window turns.
add_message(convs, conversation_id, role, content) ==
  LET old == IF conversation_id \in DOMAIN convs THEN convs[conversation_id] ELSE <<>>
      new == Append(old, Turn(role, content))
      kept == IF Len(new) > Window THEN LastN(new, Window) ELSE new
  IN  (conversation_id :> kept) @@ convs

\* A get_history that returns MAX_CONVERSATION_HISTORY turns only.
get_history_half(convs, conversation_id) ==
  IF conversation_id \notin DOMAIN convs THEN <<>>
  ELSE LastN(convs[conversation_id], MAX_CONVERSATION_HISTORY)

\* get_history: the last Window turns, none for an unknown id.
get_history(convs, conversation_id) ==
  IF conversation_id \notin DOMAIN convs
    THEN <<>>
    ELSE LastN(convs[conversation_id], Window)

NoConversations == [c \in {} |-> <<>>]

(***************************************************************************)
(* StatsTracker (main.py:250-295)                                          *)
(***************************************************************************)
NewStats == [total_messages |-> 0, total_replies |-> 0, errors |-> 0]
record_reply(s) == [s EXCEPT !.total_replies = @ + 1]
record_error(s) == [s EXCEPT !.errors = @ + 1]

\* A _save of any of the three stores: the write either replaces the file or
\* raises, which _save logs and swallows, leaving the file as it was.
Written(file, data, ok) == IF ok THEN data ELSE file

(***************************************************************************)
(* generate_ai_response (main.py:313-348)                                  *)
(***************************************************************************)
\* backendOk: the OpenAI call returns; text: what it returns.
generate_ai_response(backendOk, text) ==
  IF backendOk THEN text ELSE FALLBACK_REPLY

(***************************************************************************)
(* ShopeeChatBot.get_conversation_id (main.py:616-640)                     *)
(***************************************************************************)
get_conversation_id(p, src, t) ==
  CASE src = "url"  -> UrlId(p)
    [] src = "attr" -> AttrId(p)
    [] OTHER        -> FallbackId(t)

\* No process_conversation call is under way.  steps lists, in the order
\* they are done, the steps the call has come through: "extract" (the latest
\* buyer message is read), "dedup" (the test against what was recorded as
\* answered), "generate" (the backend call), "send" (the click that submits)
\* and "mark" (the record that it was answered).  keys lists what the
\* typing and the send of the call have done to the page so far: the
\* characters of the reply that were typed (a wrong character and the
\* Backspace that takes it away are left out) and the events of the send.
NoRun == [p |-> "", cid |-> <<>>, msg |-> <<>>, reply |-> <<>>, outcome |-> "",
          backend |-> "none", typed |-> 0, sentText |-> <<>>, clicked |-> FALSE,
          snap |-> <<>>, steps |-> <<>>, keys |-> <<>>]

\* No process_chat call is under way.  endTypo: a wrong character was typed
\* after the last character of the reply.
NoChat == [id |-> <<>>, msg |-> <<>>, reply |-> <<>>, outcome |-> "", backend |-> "none",
           typed |-> 0, sentText |-> <<>>, clicked |-> FALSE,
           snap |-> <<>>, steps |-> <<>>, endTypo |-> FALSE]

\* app.py: the buyers, the server's request threads (the development server
\* of Flask handles each request in a thread of its own) and the messages the
\* platform can push to /webhook.
Users == {"u1", "u2"}
Threads == {1, 2}
AppMsgs == {[id |-> "m1", user |-> "u1", kind |-> "text"],
            [id |-> "m2", user |-> "u2", kind |-> "text"],
            [id |-> "m3", user |-> "u1", kind |-> "image"]}
AppMsgIds == {m.id : m \in AppMsgs}
MsgOf(id) == CHOOSE m \in AppMsgs : m.id = id
\* Threads of _run_bot the launcher starts in one run of the model.
MaxWorkers == 3
WorkerIds == 1..MaxWorkers
\* conversations.json does not exist, or holds {}.
NoAppFile == <<>>
\* A thread that handles no request.
NoRequest == [op |-> "none", pc |-> "idle", user |-> "", msg |-> "", reply |-> "",
              local |-> <<>>, before |-> <<>>, prompt |-> <<>>]

\* No page is loaded: no rule matches anything.
NoPage == [matches |-> <<>>, visible |-> {}]

\* No pipeline run of the engine yet.
NoStep == [conv |-> "", raisedAt |-> "none", counted |-> 0, slept |-> 0]

Init ==
  /\ replied_hashes = {}
  /\ replied_file = {}
  /\ conversations = NoConversations
  /\ conv_file = NoConversations
  /\ stats = NewStats
  /\ stats_file = NewStats
  /\ pc = "idle"
  /\ run = NoRun
  /\ inputBox = <<>>
  /\ now = 0
  /\ sendCount = [k \in AllKeys |-> 0]
  /\ nSent = 0
  /\ answeredAs = [pm \in PhysConvs \X Msgs |-> {}]
  /\ lifeMarked = {}
  /\ everMarked = {}
  /\ crashWin = {}
  /\ appended = [c \in Ids |-> <<>>]
  /\ impl \in {"ShopeeChatBot", "ShopeeBot"}
  /\ processed_messages = {}
  /\ messages_processed = 0
  /\ replies_sent = 0
  /\ errors_count = 0
  /\ botPc = "idle"
  /\ chat = NoChat
  /\ botInput = <<>>
  /\ enginePc = "start"
  /\ stop_event = FALSE
  /\ context = "none"
  /\ location = {}
  /\ polls = 0
  /\ unread_chats = <<>>
  /\ waitLeft = 0
  /\ pageUnread = {}
  /\ lag = 0
  /\ stayedAuth = FALSE
  /\ cycleFound = {}
  /\ cycleRun = {}
  /\ lastStep = NoStep
  /\ answered = {}
  /\ page = NoPage
  /\ located = "unset"
  /\ appFile = NoAppFile
  /\ req = [t \in Threads |-> NoRequest]
  /\ appSent = [m \in AppMsgIds |-> 0]
  /\ appAsked = {}
  /\ appAdded = [u \in Users |-> <<>>]
  /\ nRequests = 0
  /\ is_running = FALSE
  /\ ctl_stop_event = FALSE
  /\ bot_thread = 0
  /\ worker = [k \in WorkerIds |-> "none"]
  /\ gui = "idle"
  /\ stopCalled = {}
  /\ stopInChat = FALSE
  /\ failed_attempts = [ip \in IPs |-> 0]
  /\ blocked_ips = {}
  /\ lock = FALSE
  /\ limCall = [t \in Callers |-> NoCall]
  /\ userRow = NewUserRow
  /\ login_attempts = NewLoginRecord
  /\ wallClock = 0


Key == generate_hash(run.cid, run.msg)

\* A step of ShopeeChatBot leaves ShopeeBot's state alone, and conversely.
ChatStep ==
  impl = "ShopeeChatBot" /\ UNCHANGED <<impl, botVars, engineVars, locVars, extVars>>
BotStep ==
  impl = "ShopeeBot" /\ UNCHANGED <<impl, chatVars, engineVars, locVars, extVars>>

(***************************************************************************)
(* ShopeeChatBot.process_conversation (main.py:768-813), in steps.  The    *)
(* first step runs from the click on the unread conversation up to the     *)
(* point where send_message has located the input box and the send button: *)
(* get_conversation_id, get_latest_buyer_message, is_replied, get_history, *)
(* generate_ai_response and find_input_and_send.                           *)
(*   p          the unread conversation that was opened                    *)
(*   m          its latest buyer message, NoMessage if none is readable    *)
(*   src        where get_conversation_id finds the id                     *)
(*   backendOk  whether the OpenAI call returns (it raises otherwise)      *)
(*   text       the text it returns                                        *)
(*   found      what find_input_and_send locates                           *)
(***************************************************************************)
ProcessBegin(p, m, src, backendOk, text, found) ==
  /\ pc = "idle"
  /\ ChatStep
  /\ src = "fallback" => now \in Instants
  /\ now' = IF src = "fallback" THEN now + 1 ELSE now
  /\ LET cid == get_conversation_id(p, src, now)
         r0  == [NoRun EXCEPT !.p = p, !.cid = cid, !.msg = m, !.snap = stores,
                              !.steps = <<"extract">>]
     IN
       IF m = NoMessage THEN
         \* "if not customer_message: return"
         /\ run' = [r0 EXCEPT !.outcome = "nomsg"]
         /\ pc' = "done"
       ELSE IF is_replied(replied_hashes, cid, m) THEN
         /\ run' = [r0 EXCEPT !.outcome = "dup", !.steps = Append(@, "dedup")]
         /\ pc' = "done"
       ELSE
         LET r1 == [r0 EXCEPT !.reply = generate_ai_response(backendOk, text),
                              !.backend = IF backendOk THEN "ok" ELSE "fail",
                              !.steps = @ \o <<"dedup", "generate">>]
         IN
           IF found = "both"
             THEN /\ nSent < MaxReplies \/ stats.errors < MaxErrors
                  /\ run' = r1
                  /\ pc' = "typing"
             \* send_message: "if not input_box: return False" and
             \* "if not send_button: return False"
             ELSE /\ run' = [r1 EXCEPT !.outcome = "notfound"]
                  /\ pc' = "done"
  /\ UNCHANGED <<stores, inputBox, ghosts>>

Backspace(s) == IF s = <<>> THEN s ELSE SubSeq(s, 1, Len(s) - 1)

\* An except branch that does not count the error.
SendRaised_uncounted(ok) ==
  /\ stats.errors < MaxErrors
  /\ UNCHANGED <<stats, stats_file>>
  /\ run' = [run EXCEPT !.outcome = "raised"]
  /\ pc' = "done"

\* The except branch of send_message (main.py:763-766): record_error, then
\* process_conversation sees success = False and does nothing more.
SendRaised(ok) ==
  /\ stats.errors < MaxErrors
  /\ stats' = record_error(stats)
  /\ stats_file' = Written(stats_file, stats', ok)
  /\ run' = [run EXCEPT !.outcome = "raised"]
  /\ pc' = "done"

(***************************************************************************)
(* simulate_human_typing (main.py:355-391), one character of the reply per *)
(* step.  res is what the browser and the random draws do at this          *)
(* character:                                                              *)
(*   "ok"         the character is typed                                   *)
(*   "typo"       it is typed, then a wrong character and a Backspace      *)
(*   "raise"      element.click() or keyboard.type raises before it        *)
(*   "raise_typo" it and the wrong character are typed, Backspace raises   *)
(***************************************************************************)
TypeChar(res, ok) ==
  /\ pc = "typing"
  /\ ChatStep
  /\ LET i  == run.typed
         ch == run.reply[i + 1]
     IN
       CASE res = "ok" ->
              /\ inputBox' = Append(inputBox, ch)
              /\ run' = [run EXCEPT !.typed = i + 1, !.keys = Append(@, ch)]
              /\ pc' = IF i + 1 = Len(run.reply) THEN "presend" ELSE "typing"
              /\ UNCHANGED <<stats, stats_file>>
         [] res = "typo" ->
              \* "random.random() < 0.02 and i < len(text) - 1"
              /\ i < Len(run.reply) - 1
              /\ inputBox' = Backspace(Append(Append(inputBox, ch), WrongChar))
              /\ run' = [run EXCEPT !.typed = i + 1, !.keys = Append(@, ch)]
              /\ pc' = IF i + 1 = Len(run.reply) THEN "presend" ELSE "typing"
              /\ UNCHANGED <<stats, stats_file>>
         [] res = "raise" ->
              /\ UNCHANGED inputBox
              /\ SendRaised(ok)
         [] OTHER ->
              /\ i < Len(run.reply) - 1
              /\ inputBox' = Append(Append(inputBox, ch), WrongChar)
              /\ SendRaised(ok)
  /\ UNCHANGED <<replied_hashes, replied_file, conversations, conv_file, now, ghosts>>

(***************************************************************************)
(* human_like_send (main.py:394-407) and the end of send_message           *)
(* (main.py:758-761): wait, hover, click, record_reply.  A click delivers  *)
(* the content of the input box and empties the box.                       *)
(***************************************************************************)
\* A send that clicks before it has waited.
SendEvents_click_first == <<"click", "sleep", "hover", "pause">>

\* What human_like_send does to the page, in order (main.py:397-406):
\* asyncio.sleep(wait_time), send_button.hover(), asyncio.sleep(0.1..0.3),
\* send_button.click().
SendEvents == <<"sleep", "hover", "pause", "click">>

HumanLikeSend(res, ok) ==
  /\ pc = "presend"
  /\ ChatStep
  /\ IF res = "ok"
       THEN /\ nSent < MaxReplies
            /\ run' = [run EXCEPT !.sentText = inputBox, !.clicked = TRUE,
                                  !.steps = Append(@, "send"),
                                  !.keys = @ \o SendEvents]
            /\ inputBox' = <<>>
            /\ sendCount' = [sendCount EXCEPT ![Key] = @ + 1]
            /\ nSent' = nSent + 1
            /\ answeredAs' = [answeredAs EXCEPT ![<<run.p, run.msg>>] = @ \cup {Key}]
            /\ stats' = record_reply(stats)
            /\ stats_file' = Written(stats_file, stats', ok)
            /\ pc' = "sent"
       ELSE \* send_button.hover() or send_button.click() raises
            /\ UNCHANGED <<inputBox, sendCount, nSent, answeredAs>>
            /\ SendRaised(ok)
  /\ UNCHANGED <<replied_hashes, replied_file, conversations, conv_file, now,
                 lifeMarked, everMarked, crashWin, appended>>

\* mark_replied (main.py:180-184) with its _save (main.py:160-168).
mark_replied(ok) ==
  /\ replied_hashes' = replied_hashes \cup {Key}
  /\ \E kept \in SavedHashes(replied_hashes') :
       replied_file' = Written(replied_file, kept, ok)

\* "if success: self.replied_tracker.mark_replied(...)" (main.py:798-800)
MarkReplied(ok) ==
  /\ pc = "sent"
  /\ ChatStep
  /\ mark_replied(ok)
  /\ lifeMarked' = lifeMarked \cup {Key}
  /\ everMarked' = everMarked \cup {Key}
  /\ run' = [run EXCEPT !.steps = Append(@, "mark")]
  /\ pc' = "marked"
  /\ UNCHANGED <<conversations, conv_file, stats, stats_file, inputBox, now,
                 sendCount, nSent, answeredAs, crashWin, appended>>

\* An add_message call of process_conversation with its _save.
AddTurn(role, content, ok) ==
  /\ conversations' = add_message(conversations, run.cid, role, content)
  /\ conv_file' = Written(conv_file, conversations', ok)
  /\ appended' = [appended EXCEPT ![run.cid] = Append(@, Turn(role, content))]

\* A run that records the assistant turn only.
AddUser_skipped(ok) ==
  /\ pc = "marked"
  /\ ChatStep
  /\ pc' = "hist1"
  /\ UNCHANGED <<stores, run, inputBox, now, ghosts>>

\* add_message(id, 'user', customer_message) (main.py:803)
AddUser(ok) ==
  /\ pc = "marked"
  /\ ChatStep
  /\ AddTurn("user", run.msg, ok)
  /\ pc' = "hist1"
  /\ UNCHANGED <<replied_hashes, replied_file, stats, stats_file, run, inputBox, now,
                 sendCount, nSent, answeredAs, lifeMarked, everMarked, crashWin>>

\* add_message(id, 'assistant', ai_reply) (main.py:804); the run is over.
AddAssistant(ok) ==
  /\ pc = "hist1"
  /\ ChatStep
  /\ AddTurn("assistant", run.reply, ok)
  /\ run' = [run EXCEPT !.outcome = "replied"]
  /\ pc' = "done"
  /\ UNCHANGED <<replied_hashes, replied_file, stats, stats_file, inputBox, now,
                 sendCount, nSent, answeredAs, lifeMarked, everMarked, crashWin>>

\* Back in main_loop (main.py:879-890): the wait, then page.reload(), which
\* brings up a fresh page with an empty input box.
Finish ==
  /\ pc = "done"
  /\ ChatStep
  /\ pc' = "idle"
  /\ run' = NoRun
  /\ inputBox' = <<>>
  /\ UNCHANGED <<stores, now, ghosts>>

\* The constructors of a new process (main.py:143-146, 194-197, 253-262):
\* every store is read back from its file.
Reloaded ==
  /\ replied_hashes' = LoadHashes(replied_file)
  /\ conversations' = conv_file
  /\ stats' = stats_file
  /\ UNCHANGED <<replied_file, conv_file, stats_file>>
  /\ lifeMarked' = {}
  /\ run' = NoRun
  /\ inputBox' = <<>>
  /\ pc' = "idle"

\* The operator stops the program between two cycles and starts it again.
Restart ==
  /\ pc = "idle"
  /\ ChatStep
  /\ Reloaded
  /\ UNCHANGED <<now, sendCount, nSent, answeredAs, everMarked, crashWin, appended>>

\* The process dies inside a run and is started again.
Crash ==
  /\ pc # "idle"
  /\ ChatStep
  /\ Reloaded
  /\ crashWin' = IF run.clicked /\ Key \notin replied_file
                   THEN crashWin \cup {Key} ELSE crashWin
  /\ UNCHANGED <<now, sendCount, nSent, answeredAs, everMarked, appended>>

Found == {"both", "noinput", "nosend"}
TypeResults == {"ok", "typo", "raise", "raise_typo"}
SendResults == {"ok", "raise"}

\* The pipeline; IOh, IOc, IOs are the outcomes a write of the key file, of
\* the history file and of the stats file can have (TRUE: it succeeds).
Pipeline(IOh, IOc, IOs) ==
  \/ \E p \in PhysConvs, b \in BOOLEAN, text \in AiReplies, f \in Found :
       \E m \in LatestOf(p) \cup {NoMessage}, src \in IdSources(p) :
         ProcessBegin(p, m, src, b, text, f)
  \/ \E res \in TypeResults, ok \in IOs : TypeChar(res, ok)
  \/ \E res \in SendResults, ok \in IOs : HumanLikeSend(res, ok)
  \/ \E ok \in IOh : MarkReplied(ok)
  \/ \E ok \in IOc : AddUser(ok)
  \/ \E ok \in IOc : AddAssistant(ok)
  \/ Finish
  \/ Restart

(***************************************************************************)
(* ShopeeBot (shopee_bot.py): the same pipeline with in-memory state only. *)
(***************************************************************************)
\* The chats of the list; "P" carries a data-id attribute, "Q" does not.
BotChats == {"P", "Q"}
\* Values str(id(item)) can take for the element handle of a chat.
ObjectIds == {<<"7", "1">>, <<"7", "2">>}
\* chat_id of get_unread_chats (shopee_bot.py:229): data-id or str(id(item)).
ChatIds(p) == IF p = "P" THEN {<<"p">>} ELSE ObjectIds

botCounters == <<messages_processed, replies_sent, errors_count>>

\* The except branch of process_chat (shopee_bot.py:360-362).
ChatRaised(outcome) ==
  /\ errors_count < MaxErrors
  /\ errors_count' = errors_count + 1
  /\ chat' = [chat EXCEPT !.outcome = outcome]
  /\ botPc' = "done"

\* get_unread_chats lists a chat whose id is not in processed_messages
\* (shopee_bot.py:227-236; the only test against what was answered, step
\* "dedup"), then process_chat (shopee_bot.py:323-350) clicks
\* it, reads the last customer message, asks the backend and looks for the
\* input box (type_message, shopee_bot.py:266-272).  The page may or may not
\* show, in the chat that was opened, the text an earlier call left in the
\* input box (keepDraft).
process_chat(id, m, clickOk, backendOk, text, found, keepDraft) ==
  /\ botPc = "idle"
  /\ BotStep
  /\ id \notin processed_messages
  /\ LET c0 == [NoChat EXCEPT !.id = id, !.snap = <<processed_messages, botCounters>>,
                               !.steps = <<"dedup">>]
         draft == IF keepDraft THEN botInput ELSE <<>>
         c1 == [c0 EXCEPT !.msg = m,
                          !.reply = generate_ai_response(backendOk, text),
                          !.backend = IF backendOk THEN "ok" ELSE "fail",
                          !.steps = @ \o <<"extract", "generate">>]
     IN  IF ~clickOk
           THEN /\ errors_count < MaxErrors
                /\ errors_count' = errors_count + 1
                /\ chat' = [c0 EXCEPT !.outcome = "clickfailed"]
                /\ botPc' = "done"
                /\ UNCHANGED <<messages_processed, botInput>>
         ELSE IF m = NoMessage
           THEN /\ chat' = [c0 EXCEPT !.outcome = "nomsg", !.steps = Append(@, "extract")]
                /\ botPc' = "done"
                /\ botInput' = draft
                /\ UNCHANGED <<messages_processed, errors_count>>
         ELSE IF ~found
           THEN /\ errors_count < MaxErrors
                /\ errors_count' = errors_count + 1
                /\ messages_processed' = messages_processed + 1
                /\ chat' = [c1 EXCEPT !.outcome = "notfound"]
                /\ botPc' = "done"
                /\ botInput' = draft
         ELSE /\ replies_sent < MaxReplies \/ errors_count < MaxErrors
              /\ messages_processed' = messages_processed + 1
              /\ chat' = c1
              /\ botPc' = "typing"
              /\ botInput' = draft
              /\ UNCHANGED errors_count
  /\ UNCHANGED <<processed_messages, replies_sent>>

\* type_message (shopee_bot.py:274-293), one character of the reply per
\* step; res as for TypeChar, but a typo can follow the last character too.
type_message(res) ==
  /\ botPc = "typing"
  /\ BotStep
  /\ LET ch == chat.reply[chat.typed + 1]
     IN  CASE res = "ok" ->
                /\ botInput' = Append(botInput, ch)
                /\ chat' = [chat EXCEPT !.typed = @ + 1]
                /\ botPc' = IF chat.typed + 1 = Len(chat.reply) THEN "presend" ELSE "typing"
                /\ UNCHANGED errors_count
           [] res = "typo" ->
                /\ botInput' = Backspace(Append(Append(botInput, ch), WrongChar))
                /\ chat' = [chat EXCEPT !.typed = @ + 1,
                                        !.endTypo = (chat.typed + 1 = Len(chat.reply))]
                /\ botPc' = IF chat.typed + 1 = Len(chat.reply) THEN "presend" ELSE "typing"
                /\ UNCHANGED errors_count
           [] res = "raise" ->
                /\ ChatRaised("raised")
                /\ UNCHANGED botInput
           [] OTHER ->
                /\ ChatRaised("raised")
                /\ botInput' = Append(Append(botInput, ch), WrongChar)
  /\ UNCHANGED <<processed_messages, messages_processed, replies_sent>>

\* send_message (shopee_bot.py:299-321) and the mark of process_chat
\* (shopee_bot.py:356): the send button is clicked, or Enter is pressed when
\* there is none; either submits what the input box holds.
send_message(res) ==
  /\ botPc = "presend"
  /\ BotStep
  /\ IF res = "ok"
       THEN /\ replies_sent < MaxReplies
            /\ replies_sent' = replies_sent + 1
            /\ processed_messages' = processed_messages \cup {chat.id}
            /\ chat' = [chat EXCEPT !.sentText = botInput, !.clicked = TRUE,
                                    !.outcome = "replied",
                                    !.steps = @ \o <<"send", "mark">>]
            /\ botInput' = <<>>
            /\ botPc' = "done"
            /\ UNCHANGED errors_count
       ELSE /\ ChatRaised("raised")
            /\ UNCHANGED <<processed_messages, replies_sent, botInput>>
  /\ UNCHANGED messages_processed

\* Back in the loop of run (shopee_bot.py:384-407): the page is not reloaded.
ChatFinish ==
  /\ botPc = "done"
  /\ BotStep
  /\ botPc' = "idle"
  /\ chat' = NoChat
  /\ UNCHANGED <<processed_messages, botCounters, botInput>>

\* One step of ShopeeBot.
BotNext ==
  \/ \E p \in BotChats, m \in Msgs \cup {NoMessage}, clickOk \in BOOLEAN,
        backendOk \in BOOLEAN, text \in AiReplies, found \in BOOLEAN :
       \E id \in ChatIds(p), keepDraft \in BOOLEAN :
         process_chat(id, m, clickOk, backendOk, text, found, keepDraft)
  \/ \E res \in TypeResults : type_message(res)
  \/ \E res \in SendResults : send_message(res)
  \/ ChatFinish

\* Normal operation: every file write succeeds and the process is only
\* stopped between cycles.
Next == Pipeline({TRUE}, {TRUE}, {TRUE}) \/ BotNext

Spec == Init /\ [][Next]_vars

\* Operation with crashes and with writes of the key file that fail.
NextFaulty == Pipeline(BOOLEAN, {TRUE}, {TRUE}) \/ Crash

InitFaulty == Init /\ impl = "ShopeeChatBot"
SpecFaulty == InitFaulty /\ [][NextFaulty]_vars

(***************************************************************************)
(* The engine: ShopeeBot.run (shopee_bot.py:364-420) with navigate_to_chat *)
(* and cleanup.  Here a whole process_chat call is one step; a             *)
(* sleep that the code does not cut into pieces is part of the step that   *)
(* starts it.  page.url is modelled as the set of the marker words         *)
(* ("login", "chat") that occur in it.                                     *)
(***************************************************************************)
\* Polls of the login wait (shopee_bot.py:201: range(60), scaled).
AUTH_POLLS == 2
\* asyncio.sleep(5) of one poll of the login wait (shopee_bot.py:202).
AUTH_POLL_SECONDS == 5
\* asyncio.sleep(5) after an error in the loop (shopee_bot.py:413).
BACKOFF_SECONDS == 5
\* TIMING["between_messages_min"/"_max"] (shopee_bot.py:68-69), whole seconds.
BetweenSeconds == {2, 5}
\* TIMING["check_interval_min"/"_max"] as configured by REFRESH_MIN_SECONDS
\* and REFRESH_MAX_SECONDS (shopee_bot.py:81-82); the model runs 1..2.
CheckInterval == 1..2

\* The chat surface, a login page, and a login page whose URL carries the
\* chat URL it will return to (".../login?next=.../portal/chatroom").
Locations == {{"chat"}, {"login"}, {"login", "chat"}}
\* "login" in url or "signin" in url (shopee_bot.py:196)
IsLoginUrl(url) == "login" \in url
\* "chatroom" in url or "chat" in url (shopee_bot.py:204)
IsChatUrl(url) == "chat" \in url

\* The chat list of the page, top to bottom.
ChatList == <<"P", "Q">>

\* A sleep of d seconds in or before the loop that nothing interrupts; lag
\* is the longest such sleep begun with the stop signal already set.  (The
\* sleep after page.goto is taken as part of the navigation.)
Sleeps(d) == lag' = IF stop_event /\ d > lag THEN d ELSE lag

\* The engine of ShopeeBot steps; the pipeline variables of the step-wise
\* model stay as they are.
RunStep ==
  /\ impl = "ShopeeBot"
  /\ UNCHANGED <<impl, chatVars, botPc, chat, botInput, locVars, extVars>>

\* setup_browser (shopee_bot.py:125-162): launch_persistent_context may
\* raise, and so may a later call once the context exists.
setup_browser(res) ==
  /\ enginePc = "start"
  /\ RunStep
  /\ context' = IF res = "launch_raises" THEN "none" ELSE "open"
  /\ enginePc' = IF res = "ok" THEN "navigate" ELSE "cleanup"
  /\ UNCHANGED <<processed_messages, botCounters, stop_event, location, polls,
                 unread_chats, waitLeft, pageUnread, lag, stayedAuth, cycleFound,
                 cycleRun, lastStep, answered>>

\* navigate_to_chat up to the login test (shopee_bot.py:186-199).
navigate_to_chat(res, url) ==
  /\ enginePc = "navigate"
  /\ RunStep
  /\ IF res = "ok"
       THEN /\ location' = url
            /\ UNCHANGED lag
            /\ stayedAuth' = IsLoginUrl(url)
            /\ enginePc' = IF IsLoginUrl(url) THEN "auth_wait" ELSE "loop"
       ELSE /\ enginePc' = "cleanup"
            /\ UNCHANGED <<location, lag, stayedAuth>>
  /\ UNCHANGED <<processed_messages, botCounters, stop_event, context, polls,
                 unread_chats, waitLeft, pageUnread, cycleFound, cycleRun,
                 lastStep, answered>>

\* One round of the login wait (shopee_bot.py:201-208): sleep, read the url,
\* leave the wait if it names the chat; the last round without that raises.
AuthPoll(url) ==
  /\ enginePc = "auth_wait"
  /\ RunStep
  /\ Sleeps(AUTH_POLL_SECONDS)
  /\ location' = url
  /\ polls' = IF IsChatUrl(url) \/ polls + 1 = AUTH_POLLS THEN 0 ELSE polls + 1
  /\ stayedAuth' = (stayedAuth /\ IsLoginUrl(url))
  /\ enginePc' = IF IsChatUrl(url) THEN "loop"
                 ELSE IF polls + 1 = AUTH_POLLS THEN "cleanup"
                 ELSE "auth_wait"
  /\ UNCHANGED <<processed_messages, botCounters, stop_event, context,
                 unread_chats, waitLeft, pageUnread, cycleFound, cycleRun,
                 lastStep, answered>>

\* The chat_id get_unread_chats reads for each item in one pass.
IdReadings ==
  {f \in [BotChats -> UNION {ChatIds(c) : c \in BotChats}] :
     \A c \in BotChats : f[c] \in ChatIds(c)}

\* The list get_unread_chats builds (shopee_bot.py:222-236): the items with
\* an unread badge whose chat_id is not in processed_messages, in page order.
UnreadChats(idOf) ==
  LET listed(c) == c \in pageUnread /\ idOf[c] \notin processed_messages
      items == SelectSeq(ChatList, listed)
  IN  [i \in 1..Len(items) |-> [id |-> idOf[items[i]], element |-> items[i]]]

\* "while not stop_event.is_set()" and get_unread_chats
\* (shopee_bot.py:377-380); listOk is FALSE when the chat list does not load
\* and get_unread_chats swallows the timeout.
LoopHead(idOf, listOk) ==
  /\ enginePc = "loop"
  /\ RunStep
  /\ IF stop_event
       THEN /\ enginePc' = "cleanup"
            /\ UNCHANGED <<unread_chats, cycleFound, cycleRun>>
       ELSE /\ unread_chats' = IF listOk THEN UnreadChats(idOf) ELSE <<>>
            /\ cycleFound' = IF listOk THEN pageUnread ELSE {}
            /\ cycleRun' = {}
            /\ enginePc' = "chats"
  /\ lastStep' = NoStep
  /\ UNCHANGED <<processed_messages, botCounters, stop_event, context, location,
                 polls, waitLeft, pageUnread, lag, stayedAuth, answered>>

\* What one call of process_chat can come to; the step named is the one
\* that raises.
ChatOutcomes == {"replied", "no_message", "open_raises", "extract_raises",
                 "generate_raises", "type_raises", "send_raises"}
\* The step of an outcome that raises.
RaisedAt(outcome) ==
  CASE outcome = "open_raises" -> "open"
    [] outcome = "extract_raises" -> "extract"
    [] outcome = "generate_raises" -> "generate"
    [] outcome = "type_raises" -> "type"
    [] outcome = "send_raises" -> "send"
    [] OTHER -> "none"

\* process_chat as one step (shopee_bot.py:323-362): a failed click, typing
\* or send reaches the except branch; get_last_customer_message swallows its
\* own exception and returns None (shopee_bot.py:255-258); a failed
\* generate_reply is replaced by the fallback text and the reply goes out.
ProcessChatCall(c, id, outcome) ==
  LET reads == outcome \notin {"open_raises", "no_message", "extract_raises"}
      sends == outcome \in {"replied", "generate_raises"}
      fails == outcome \in {"open_raises", "type_raises", "send_raises"}
  IN  /\ sends => replies_sent < MaxReplies
      /\ fails => errors_count < MaxErrors
      /\ messages_processed' = IF reads THEN messages_processed + 1 ELSE messages_processed
      /\ replies_sent' = IF sends THEN replies_sent + 1 ELSE replies_sent
      /\ errors_count' = IF fails THEN errors_count + 1 ELSE errors_count
      /\ processed_messages' = IF sends THEN processed_messages \cup {id}
                               ELSE processed_messages
      /\ pageUnread' = IF outcome = "open_raises" THEN pageUnread ELSE pageUnread \ {c}
      /\ answered' = IF sends THEN answered \cup {c} ELSE answered
      /\ cycleRun' = cycleRun \cup {c}
      /\ lastStep' = [conv |-> c, raisedAt |-> RaisedAt(outcome),
                      counted |-> errors_count' - errors_count, slept |-> 0]

\* The body of "for chat in unread_chats" (shopee_bot.py:384-389): leave
\* the loop on the stop signal, else process the chat.
ForChat(outcome) ==
  /\ enginePc = "chats"
  /\ RunStep
  /\ unread_chats # <<>>
  /\ IF stop_event
       THEN /\ enginePc' = "wait"
            /\ \E w \in CheckInterval : waitLeft' = w
            /\ UNCHANGED <<processed_messages, botCounters, pageUnread, answered,
                           cycleRun, lastStep>>
       ELSE /\ ProcessChatCall(Head(unread_chats).element, Head(unread_chats).id, outcome)
            /\ enginePc' = "pause"
            /\ UNCHANGED waitLeft
  /\ UNCHANGED <<stop_event, context, location, polls, unread_chats, lag,
                 stayedAuth, cycleFound>>

\* The sleep between two chats (shopee_bot.py:391-395).
Pause(d) ==
  /\ enginePc = "pause"
  /\ RunStep
  /\ Sleeps(d)
  /\ unread_chats' = Tail(unread_chats)
  /\ enginePc' = "chats"
  /\ lastStep' = NoStep
  /\ UNCHANGED <<processed_messages, botCounters, stop_event, context, location,
                 polls, waitLeft, pageUnread, stayedAuth, cycleFound, cycleRun,
                 answered>>

\* The list is done: draw the wait (shopee_bot.py:397-402).
EndChats(w) ==
  /\ enginePc = "chats"
  /\ RunStep
  /\ unread_chats = <<>>
  /\ waitLeft' = w
  /\ enginePc' = "wait"
  /\ UNCHANGED <<processed_messages, botCounters, stop_event, context, location,
                 polls, unread_chats, pageUnread, lag, stayedAuth, cycleFound,
                 cycleRun, lastStep, answered>>

\* One round of the wait in pieces (shopee_bot.py:404-408): the stop signal
\* is looked at, then one second is slept.
WaitSecond ==
  /\ enginePc = "wait"
  /\ RunStep
  /\ IF waitLeft = 0 \/ stop_event
       THEN enginePc' = "loop" /\ waitLeft' = 0 /\ cycleFound' = {} /\ cycleRun' = {}
       ELSE enginePc' = "wait" /\ waitLeft' = waitLeft - 1
            /\ UNCHANGED <<cycleFound, cycleRun>>
  /\ UNCHANGED <<processed_messages, botCounters, stop_event, context, location,
                 polls, unread_chats, pageUnread, lag, stayedAuth, lastStep, answered>>

\* LoopRaises with an except branch that lets the exception end the loop.
LoopRaises_fatal ==
  /\ enginePc \in {"chats", "pause", "wait"}
  /\ RunStep
  /\ errors_count < MaxErrors
  /\ errors_count' = errors_count + 1
  /\ enginePc' = "cleanup"
  /\ lastStep' = [conv |-> "", raisedAt |-> "loop", counted |-> 1, slept |-> 0]
  /\ UNCHANGED <<processed_messages, messages_processed, replies_sent, stop_event,
                 context, location, polls, unread_chats, waitLeft, pageUnread, lag,
                 stayedAuth, cycleFound, cycleRun, answered>>

\* An exception inside the loop body (shopee_bot.py:410-413): count it, sleep,
\* go round again.
LoopRaises ==
  /\ enginePc \in {"chats", "pause", "wait"}
  /\ RunStep
  /\ errors_count < MaxErrors
  /\ errors_count' = errors_count + 1
  /\ Sleeps(BACKOFF_SECONDS)
  /\ enginePc' = "loop"
  /\ lastStep' = [conv |-> "", raisedAt |-> "loop", counted |-> 1, slept |-> 0]
  /\ unread_chats' = <<>>
  /\ waitLeft' = 0
  /\ cycleFound' = {}
  /\ cycleRun' = {}
  /\ UNCHANGED <<processed_messages, messages_processed, replies_sent, stop_event,
                 context, location, polls, pageUnread, stayedAuth, answered>>

\* finally: cleanup (shopee_bot.py:419-432) closes the context if there is one.
cleanup ==
  /\ enginePc = "cleanup"
  /\ RunStep
  /\ context' = IF context = "open" THEN "closed" ELSE context
  /\ enginePc' = "returned"
  /\ UNCHANGED <<processed_messages, botCounters, stop_event, location, polls,
                 unread_chats, waitLeft, pageUnread, lag, stayedAuth, cycleFound,
                 cycleRun, lastStep, answered>>

\* BotController.stop sets the event (launcher.py:206-213).
SetStop ==
  /\ impl = "ShopeeBot"
  /\ ~stop_event
  /\ enginePc # "returned"
  /\ stop_event' = TRUE
  /\ stopInChat' = (stopInChat \/ botPc # "idle")
  /\ UNCHANGED <<impl, chatVars, botVars, enginePc, context, location, polls,
                 unread_chats, waitLeft, pageUnread, lag, stayedAuth, cycleFound,
                 cycleRun, lastStep, answered, locVars, appVars, ctlVars, secVars>>

\* join(timeout=5) of BotController.stop (launcher.py:216).
JOIN_TIMEOUT_SECONDS == 5

\* BotController.start after a stop whose join has timed out
\* (launcher.py:180-182, 199, 215-216): the worker is still running, inside a
\* process_chat call or after a sleep of five seconds or more that began
\* with the event set, and start clears the event the worker reads.
StartClears ==
  /\ impl = "ShopeeBot"
  /\ stop_event
  /\ enginePc # "returned"
  /\ lag >= JOIN_TIMEOUT_SECONDS \/ botPc # "idle"
  /\ stop_event' = FALSE
  /\ UNCHANGED <<impl, chatVars, botVars, enginePc, context, location, polls,
                 unread_chats, waitLeft, pageUnread, lag, stayedAuth, cycleFound,
                 cycleRun, lastStep, answered, locVars, extVars>>

\* A buyer writes: the page shows the conversation as unread.
NewMessage(c) ==
  /\ c \in (IF impl = "ShopeeBot" THEN BotChats ELSE PhysConvs)
  /\ c \notin pageUnread
  /\ enginePc = "loop"
  /\ pageUnread' = pageUnread \cup {c}
  /\ UNCHANGED <<impl, chatVars, botVars, enginePc, stop_event, context, location,
                 polls, unread_chats, waitLeft, lag, stayedAuth, cycleFound,
                 cycleRun, lastStep, answered, locVars, extVars>>

(***************************************************************************)
(* The engine of main.py: ShopeeChatBot.run (main.py:903-918) with         *)
(* initialize, navigate_to_chat and main_loop.  A whole                    *)
(* process_conversation call is one step that changes the three stores as  *)
(* the step-wise model does; the history variables of that model are not   *)
(* followed here.  The stop signal of main.py is Ctrl+C.                   *)
(***************************************************************************)
\* The conversation list of the page, top to bottom.
ConvList == <<"A", "B">>

\* The engine of ShopeeChatBot steps.
MainStep ==
  /\ impl = "ShopeeChatBot"
  /\ UNCHANGED <<impl, botVars, pc, run, inputBox, ghosts, polls, unread_chats,
                 waitLeft, lag, locVars, extVars>>

\* initialize (main.py:482-536)
initialize(res) ==
  /\ enginePc = "start"
  /\ MainStep
  /\ context' = IF res = "launch_raises" THEN "none" ELSE "open"
  /\ enginePc' = IF res = "ok" THEN "navigate" ELSE "cleanup"
  /\ UNCHANGED <<stores, now, stop_event, location, pageUnread, stayedAuth,
                 cycleFound, cycleRun, lastStep, answered>>

\* 'login' in url or 'signin' in url or 'account' in url (main.py:551)
MainIsLoginUrl(url) == "login" \in url

\* navigate_to_chat up to input() (main.py:538-556); a goto that times out is
\* passed over, any other exception ends run.
MainNavigate(res, url) ==
  /\ enginePc = "navigate"
  /\ MainStep
  /\ IF res = "ok"
       THEN /\ location' = url
            /\ stayedAuth' = MainIsLoginUrl(url)
            /\ enginePc' = IF MainIsLoginUrl(url) THEN "auth_wait" ELSE "loop"
       ELSE /\ enginePc' = "cleanup"
            /\ UNCHANGED <<location, stayedAuth>>
  /\ UNCHANGED <<stores, now, stop_event, context, pageUnread, cycleFound,
                 cycleRun, lastStep, answered>>

\* The operator presses Enter, logged in or not; the page is loaded again and
\* main_loop follows (main.py:556-566).
OperatorEnter(res, url) ==
  /\ enginePc = "auth_wait"
  /\ MainStep
  /\ IF res = "ok"
       THEN /\ location' = url
            /\ stayedAuth' = (stayedAuth /\ MainIsLoginUrl(url))
            /\ enginePc' = "loop"
       ELSE /\ enginePc' = "cleanup"
            /\ UNCHANGED <<location, stayedAuth>>
  /\ UNCHANGED <<stores, now, stop_event, context, pageUnread, cycleFound,
                 cycleRun, lastStep, answered>>

\* find_unread_conversation (main.py:579-614): elements[0], the first unread
\* conversation of the page, or None.
FirstUnread ==
  LET items == SelectSeq(ConvList, LAMBDA c : c \in pageUnread)
  IN  IF items = <<>> THEN "" ELSE Head(items)

\* What one call of process_conversation can come to when a message is read
\* and is not a duplicate.
SendOutcomes == {"replied", "generate_raises", "not_found", "type_raises",
                 "send_raises"}

\* process_conversation as one step (main.py:768-813).
ProcessConversationCall(p, m, src, outcome, text) ==
  LET cid == get_conversation_id(p, src, now)
      key == generate_hash(cid, m)
      reply == generate_ai_response(outcome # "generate_raises", text)
      sends == outcome \in {"replied", "generate_raises"}
      fails == outcome \in {"type_raises", "send_raises"}
      h1 == add_message(conversations, cid, "user", m)
      h2 == add_message(h1, cid, "assistant", reply)
      skipped == m = NoMessage \/ is_replied(replied_hashes, cid, m)
  IN  /\ src = "fallback" => now \in Instants
      /\ now' = IF src = "fallback" THEN now + 1 ELSE now
      /\ IF skipped
           THEN /\ outcome = "replied"
                /\ UNCHANGED <<stores, answered>>
                /\ lastStep' = [conv |-> p, raisedAt |-> "none", counted |-> 0, slept |-> 0]
           ELSE /\ sends => stats.total_replies < MaxReplies
                /\ fails => stats.errors < MaxErrors
                /\ stats' = IF sends THEN record_reply(stats)
                            ELSE IF fails THEN record_error(stats) ELSE stats
                /\ stats_file' = stats'
                /\ replied_hashes' = IF sends THEN replied_hashes \cup {key}
                                     ELSE replied_hashes
                /\ IF sends
                     THEN \E kept \in SavedHashes(replied_hashes') : replied_file' = kept
                     ELSE UNCHANGED replied_file
                /\ conversations' = IF sends THEN h2 ELSE conversations
                /\ conv_file' = conversations'
                /\ answered' = IF sends THEN answered \cup {p} ELSE answered
                /\ lastStep' = [conv |-> p, raisedAt |-> RaisedAt(outcome),
                                counted |-> stats'.errors - stats.errors, slept |-> 0]

\* Where the engine's runs read the conversation id from; the clock
\* fallback of get_conversation_id is followed in the step-wise model.
EngineIdSources == {"url", "attr"}

\* The inputs of a step that does not come to read them, held at one value.
NotRead(m, src, outcome, seen) ==
  m = NoMessage /\ src = "url" /\ outcome = "replied" /\ seen

\* One pass of the body of main_loop up to the wait (main.py:864-874):
\* check_and_process_unread (main.py:832-851) clicks the first unread
\* conversation and runs process_conversation; an exception of the search or
\* of the click is caught there and only logged.  seen: the page drops the
\* unread mark of the conversation that was opened.
MainCycle(clickOk, m, src, outcome, text, seen) ==
  /\ enginePc = "loop"
  /\ MainStep
  /\ cycleFound' = pageUnread
  /\ enginePc' = "sleep"
  /\ LET p == FirstUnread
     IN  IF p = ""
           THEN /\ clickOk /\ NotRead(m, src, outcome, seen)
                /\ cycleRun' = {}
                /\ lastStep' = NoStep
                /\ UNCHANGED <<stores, now, pageUnread, answered>>
         ELSE IF ~clickOk
           THEN /\ NotRead(m, src, outcome, seen)
                /\ cycleRun' = {p}
                /\ lastStep' = [conv |-> p, raisedAt |-> "open", counted |-> 0, slept |-> 0]
                /\ UNCHANGED <<stores, now, pageUnread, answered>>
         ELSE /\ cycleRun' = {p}
              /\ m \in LatestOf(p) \cup {NoMessage}
              /\ src \in IdSources(p) \cap EngineIdSources
              /\ ProcessConversationCall(p, m, src, outcome, text)
              /\ pageUnread' = IF seen THEN pageUnread \ {p} ELSE pageUnread
  /\ UNCHANGED <<stop_event, context, location, stayedAuth>>

\* REFRESH_MIN_SECONDS and REFRESH_MAX_SECONDS (main.py:72-73), defaults.
REFRESH_MIN_SECONDS == 30
REFRESH_MAX_SECONDS == 60
\* random.randint(REFRESH_MIN_SECONDS, REFRESH_MAX_SECONDS) (main.py:880):
\* the two ends of the range.
RefreshWaits == {REFRESH_MIN_SECONDS, REFRESH_MAX_SECONDS}
\* asyncio.sleep(2) after the reload (main.py:890).
RELOAD_SLEEP_SECONDS == 2
\* asyncio.sleep(10) after an exception in main_loop (main.py:898).
MAIN_BACKOFF_SECONDS == 10

\* The wait, the reload and the short sleep after it (main.py:879-890); a
\* reload that times out is passed over, any other exception is counted and
\* followed by the longer sleep (main.py:895-898).
MainSleep(res, w) ==
  /\ enginePc = "sleep"
  /\ MainStep
  /\ IF res = "raises"
       THEN /\ stats.errors < MaxErrors
            /\ stats' = record_error(stats)
            /\ stats_file' = stats'
            /\ lastStep' = [conv |-> "", raisedAt |-> "loop", counted |-> 1,
                            slept |-> w + MAIN_BACKOFF_SECONDS]
       ELSE /\ lastStep' = [NoStep EXCEPT !.slept = w + RELOAD_SLEEP_SECONDS]
            /\ UNCHANGED <<stats, stats_file>>
  /\ enginePc' = "loop"
  /\ cycleFound' = {}
  /\ cycleRun' = {}
  /\ UNCHANGED <<replied_hashes, replied_file, conversations, conv_file, now,
                 stop_event, context, location, pageUnread, stayedAuth, answered>>

\* Ctrl+C: KeyboardInterrupt ends the await under way; main_loop or run
\* catches it and run goes on to its finally block (main.py:892-894, 909-910).
KeyboardInterrupt ==
  /\ enginePc \notin {"cleanup", "returned"}
  /\ MainStep
  /\ stop_event' = TRUE
  /\ enginePc' = "cleanup"
  /\ UNCHANGED <<stores, now, context, location, pageUnread, stayedAuth,
                 cycleFound, cycleRun, lastStep, answered>>

\* finally of run (main.py:913-918)
MainCleanup ==
  /\ enginePc = "cleanup"
  /\ MainStep
  /\ context' = IF context = "open" THEN "closed" ELSE context
  /\ enginePc' = "returned"
  /\ UNCHANGED <<stores, now, stop_event, location, pageUnread, stayedAuth,
                 cycleFound, cycleRun, lastStep, answered>>

SetupResults == {"ok", "launch_raises", "later_raises"}
GotoResults == {"ok", "raises"}

\* The steps of the two engines, and those of their surroundings.
EngineNext ==
  \/ \E res \in SetupResults : setup_browser(res)
  \/ \E res \in GotoResults, url \in Locations : navigate_to_chat(res, url)
  \/ \E url \in Locations : AuthPoll(url)
  \/ \E idOf \in IdReadings, listOk \in BOOLEAN : LoopHead(idOf, listOk)
  \/ \E outcome \in ChatOutcomes : ForChat(outcome)
  \/ \E d \in BetweenSeconds : Pause(d)
  \/ \E w \in CheckInterval : EndChats(w)
  \/ WaitSecond
  \/ LoopRaises
  \/ cleanup
  \/ \E res \in SetupResults : initialize(res)
  \/ \E res \in GotoResults, url \in Locations : MainNavigate(res, url)
  \/ \E clickOk \in BOOLEAN, m \in Msgs \cup {NoMessage}, src \in EngineIdSources,
        outcome \in SendOutcomes, text \in AiReplies, seen \in BOOLEAN :
       MainCycle(clickOk, m, src, outcome, text, seen)
  \/ \E res \in {"ok", "timeout", "raises"}, w \in RefreshWaits : MainSleep(res, w)
  \/ MainCleanup

SurroundingsNext ==
  \/ SetStop
  \/ StartClears
  \/ KeyboardInterrupt
  \/ \E res \in GotoResults, url \in Locations : OperatorEnter(res, url)
  \/ \E c \in BotChats \cup PhysConvs : NewMessage(c)

NextRun == EngineNext \/ SurroundingsNext

SpecRun == Init /\ [][NextRun]_vars

\* The event loop keeps running the coroutine of run: once the stop signal is
\* set, a step the engine can take is taken.  The stop signal, the operator
\* and the buyers act when they will.
SpecRunFair == SpecRun /\ WF_vars(stop_event /\ EngineNext)

(***************************************************************************)
(* The pass of ShopeeBot.run through the list of unread chats              *)
(* (shopee_bot.py:384-395) with the process_chat call taken step by step:  *)
(* the stop signal and a later start can come between two steps of a call. *)
(***************************************************************************)
\* "if stop_event.is_set(): break" has let the pass go on, and process_chat
\* starts on the first chat of the rest of the list (shopee_bot.py:384-388).
StartChat(m, clickOk, backendOk, text, found, keepDraft) ==
  /\ enginePc = "chats"
  /\ unread_chats # <<>>
  /\ ~stop_event
  /\ process_chat(Head(unread_chats).id, m, clickOk, backendOk, text, found, keepDraft)

\* process_chat has returned; the pause before the next chat
\* (shopee_bot.py:390-395).
ChatReturns(d) ==
  /\ enginePc = "chats"
  /\ botPc = "done"
  /\ botPc' = "idle"
  /\ chat' = NoChat
  /\ Sleeps(d)
  /\ pageUnread' = IF chat.outcome = "clickfailed" THEN pageUnread
                   ELSE pageUnread \ {Head(unread_chats).element}
  /\ unread_chats' = Tail(unread_chats)
  /\ stopInChat' = (stopInChat /\ Tail(unread_chats) # <<>>)
  /\ UNCHANGED <<impl, chatVars, processed_messages, botCounters, botInput, enginePc,
                 stop_event, context, location, polls, waitLeft, stayedAuth,
                 cycleFound, cycleRun, lastStep, answered, locVars, appVars, ctlVars, secVars>>

\* "if stop_event.is_set(): break" ends the pass (shopee_bot.py:385-386),
\* and the wait is drawn (shopee_bot.py:397-402).
ForBreak(w) ==
  /\ enginePc = "chats"
  /\ botPc = "idle"
  /\ unread_chats # <<>>
  /\ stop_event
  /\ enginePc' = "wait"
  /\ waitLeft' = w
  /\ stopInChat' = FALSE
  /\ UNCHANGED <<impl, chatVars, botVars, stop_event, context, location, polls,
                 unread_chats, pageUnread, lag, stayedAuth, cycleFound, cycleRun,
                 lastStep, answered, locVars, appVars, ctlVars, secVars>>

NextCancel ==
  \/ setup_browser("ok")
  \/ navigate_to_chat("ok", {"chat"})
  \/ \E c \in BotChats : NewMessage(c)
  \/ \E idOf \in IdReadings : LoopHead(idOf, TRUE)
  \/ \E m \in Msgs \cup {NoMessage}, clickOk \in BOOLEAN, backendOk \in BOOLEAN,
        text \in AiReplies, found \in BOOLEAN, keepDraft \in BOOLEAN :
       StartChat(m, clickOk, backendOk, text, found, keepDraft)
  \/ \E res \in TypeResults : type_message(res)
  \/ \E res \in SendResults : send_message(res)
  \/ \E d \in BetweenSeconds : ChatReturns(d)
  \/ \E w \in CheckInterval : ForBreak(w)
  \/ \E w \in CheckInterval : EndChats(w)
  \/ WaitSecond
  \/ cleanup
  \/ SetStop
  \/ StartClears

InitCancel == Init /\ impl = "ShopeeBot"
SpecCancel == InitCancel /\ [][NextCancel]_vars

(***************************************************************************)
(* The locator: find_element_with_fallback (main.py:568-577) and the two   *)
(* loops of find_input_and_send (main.py:703-713, 726-736).  A page is     *)
(* seen through the matching rules (selectors) of a role, in priority      *)
(* order: matches[r] lists, in document order, the elements rule r         *)
(* matches; visible is the set of the elements that are visible.           *)
(***************************************************************************)
\* Elements a page can hold.
Elements == {"e1", "e2", "e3"}
\* Matching rules of a role, in priority order.
NumRules == 2
\* Elements one rule matches at most.
MaxMatches == 2
\* What the locator returns when it finds nothing.
None == "None"

\* The lists of at most n distinct elements.
ElementLists(n) ==
  UNION {{q \in [1..k -> Elements] : \A i, j \in 1..k : i # j => q[i] # q[j]} :
           k \in 0..n}
Pages ==
  [matches : [1..NumRules -> ElementLists(MaxMatches)], visible : SUBSET Elements]

\* page.query_selector(selector): the first element the rule matches, in
\* document order, or None.  (page.wait_for_selector(selector,
\* state='visible') looks at the same element, and raises on timeout when it
\* does not become visible.)
query_selector(pg, r) ==
  IF pg.matches[r] = <<>> THEN None ELSE Head(pg.matches[r])

\* The loop over the selectors from rule r on: the first match of a rule is
\* taken if it is visible, otherwise the next rule is tried.
RECURSIVE find_element_with_fallback(_, _)
find_element_with_fallback(pg, r) ==
  IF r > Len(pg.matches) THEN None
  ELSE LET el == query_selector(pg, r)
       IN  IF el # None /\ el \in pg.visible
             THEN el
             ELSE find_element_with_fallback(pg, r + 1)

\* The browser shows a page.
LoadPage(pg) ==
  /\ page = NoPage
  /\ located = "unset"
  /\ page' = pg
  /\ UNCHANGED <<impl, chatVars, botVars, engineVars, located, extVars>>

\* The locator is called on the page.
Locate ==
  /\ page # NoPage
  /\ located = "unset"
  /\ located' = find_element_with_fallback(page, 1)
  /\ UNCHANGED <<impl, chatVars, botVars, engineVars, page, extVars>>

NextLocate == (\E pg \in Pages : LoadPage(pg)) \/ Locate

InitLocate == Init /\ impl = "ShopeeChatBot"
SpecLocate == InitLocate /\ [][NextLocate]_vars

(***************************************************************************)
(* app.py: the webhook server.  Each request runs in a thread of its own   *)
(* (app.run(..., threaded=True), app.py:1400-1404).  read_conversations    *)
(* and write_conversations (app.py:165-186) each take conversation_lock    *)
(* for the one file access they make, so each is one step; what a handler  *)
(* does between them is done on its own copy (local).  A turn is recorded  *)
(* by its role and the id of the message it belongs to.                    *)
(***************************************************************************)
\* Requests the server takes up in one run of the model.
MaxRequests == 3
\* MAX_CONVERSATION_HISTORY of app.py (app.py:69; from the environment,
\* default 10); the model runs the configuration 2 (a window of four turns).
APP_MAX_CONVERSATION_HISTORY == 2
\* The fixed reply to a message that is not text (app.py:770).
ACK_REPLY == "ack"

AppTurn(role, id) == [role |-> role, content |-> id]

\* The body of add_to_conversation between its read and its write
\* (app.py:193-209).
AppAppend(data, u, turn) ==
  LET old == IF u \in DOMAIN data THEN data[u] ELSE <<>>
  IN  (u :> LastN(Append(old, turn), APP_MAX_CONVERSATION_HISTORY * 2)) @@ data

\* "del conversations[user_id]" (app.py:956)
AppDelete(data, u) == [x \in DOMAIN data \ {u} |-> data[x]]

\* The history of user u in the data.
AppHistory(data, u) == IF u \in DOMAIN data THEN data[u] ELSE <<>>

\* get_conversation_history (app.py:214-222): the last turns of the user.
get_conversation_history(data, u) ==
  LastN(AppHistory(data, u), APP_MAX_CONVERSATION_HISTORY * 2)

\* A step of the server leaves the bots alone.
AppStep == UNCHANGED <<impl, chatVars, botVars, engineVars, locVars, ctlVars, stopInChat, secVars>>

\* webhook up to the first file access or the send (app.py:710-777): a
\* message that is not text gets the fixed reply, a text that matches a
\* keyword rule (kw) gets the reply of the rule, any other text starts
\* add_to_conversation(user_id, 'user', ...) with its read_conversations.
WebhookBegin(t, m, kw) ==
  /\ req[t].pc = "idle"
  /\ AppStep
  /\ nRequests < MaxRequests
  /\ nRequests' = nRequests + 1
  /\ req' = [req EXCEPT ![t] =
       IF m.kind # "text"
         THEN [NoRequest EXCEPT !.op = "webhook", !.pc = "send", !.user = m.user,
                                !.msg = m.id, !.reply = ACK_REPLY]
       ELSE IF kw
         THEN [NoRequest EXCEPT !.op = "webhook", !.pc = "send", !.user = m.user,
                                !.msg = m.id, !.reply = "keyword"]
       ELSE [NoRequest EXCEPT !.op = "webhook", !.pc = "user_write", !.user = m.user,
                              !.msg = m.id, !.local = appFile,
                              !.before = get_conversation_history(appFile, m.user)]]
  /\ UNCHANGED <<appFile, appSent, appAsked, appAdded>>

\* The rest of add_to_conversation(user_id, 'user', message_content)
\* (app.py:193-211).
AddUserWrite(t) ==
  /\ req[t].pc = "user_write"
  /\ AppStep
  /\ appFile' = AppAppend(req[t].local, req[t].user, AppTurn("user", req[t].msg))
  /\ appAdded' = [appAdded EXCEPT ![req[t].user] = Append(@, AppTurn("user", req[t].msg))]
  /\ req' = [req EXCEPT ![t].pc = "generate", ![t].local = <<>>]
  /\ UNCHANGED <<appSent, appAsked, nRequests>>

\* generate_ai_response (app.py:536-565), a failed call giving its fixed
\* text, with the message list it builds (prompt, without the system
\* message), and the read_conversations of
\* add_to_conversation(user_id, 'assistant', ai_reply).
AppGenerate(t) ==
  /\ req[t].pc = "generate"
  /\ AppStep
  /\ appAsked' = appAsked \cup {req[t].msg}
  /\ req' = [req EXCEPT ![t].pc = "asst_write", ![t].reply = "ai", ![t].local = appFile,
                         ![t].prompt = get_conversation_history(appFile, req[t].user)
                                         \o <<AppTurn("user", req[t].msg)>>]
  /\ UNCHANGED <<appFile, appSent, appAdded, nRequests>>

\* The rest of add_to_conversation(user_id, 'assistant', ai_reply).
AddAsstWrite(t) ==
  /\ req[t].pc = "asst_write"
  /\ AppStep
  /\ appFile' = AppAppend(req[t].local, req[t].user, AppTurn("assistant", req[t].msg))
  /\ appAdded' = [appAdded EXCEPT ![req[t].user] = Append(@, AppTurn("assistant", req[t].msg))]
  /\ req' = [req EXCEPT ![t].pc = "send", ![t].local = <<>>]
  /\ UNCHANGED <<appSent, appAsked, nRequests>>

\* send_shopee_message and the response (app.py:779-788); ok is FALSE when
\* the platform refuses the message.
AppSend(t, ok) ==
  /\ req[t].pc = "send"
  /\ AppStep
  /\ appSent' = IF ok THEN [appSent EXCEPT ![req[t].msg] = @ + 1] ELSE appSent
  /\ req' = [req EXCEPT ![t] = NoRequest]
  /\ UNCHANGED <<appFile, appAsked, appAdded, nRequests>>

\* api_clear_conversation_history up to its write (app.py:951-958): with no
\* entry for the user the request is over, and answers success.
PurgeBegin(t, u) ==
  /\ req[t].pc = "idle"
  /\ AppStep
  /\ nRequests < MaxRequests
  /\ nRequests' = nRequests + 1
  /\ req' = [req EXCEPT ![t] =
       IF u \in DOMAIN appFile
         THEN [NoRequest EXCEPT !.op = "purge", !.pc = "purge_write", !.user = u,
                                !.local = appFile]
         ELSE [NoRequest EXCEPT !.op = "purge", !.pc = "purged", !.user = u]]
  /\ UNCHANGED <<appFile, appSent, appAsked, appAdded>>

\* "del conversations[user_id]; write_conversations(conversations)"
PurgeWrite(t) ==
  /\ req[t].pc = "purge_write"
  /\ AppStep
  /\ appFile' = AppDelete(req[t].local, req[t].user)
  /\ appAdded' = [appAdded EXCEPT ![req[t].user] = <<>>]
  /\ req' = [req EXCEPT ![t].pc = "purged", ![t].local = <<>>]
  /\ UNCHANGED <<appSent, appAsked, nRequests>>

\* The response {'success': True} goes out.
PurgeDone(t) ==
  /\ req[t].pc = "purged"
  /\ AppStep
  /\ req' = [req EXCEPT ![t] = NoRequest]
  /\ UNCHANGED <<appFile, appSent, appAsked, appAdded, nRequests>>

NextApp ==
  \/ \E t \in Threads, m \in AppMsgs, kw \in BOOLEAN : WebhookBegin(t, m, kw)
  \/ \E t \in Threads : AddUserWrite(t)
  \/ \E t \in Threads : AppGenerate(t)
  \/ \E t \in Threads : AddAsstWrite(t)
  \/ \E t \in Threads, ok \in BOOLEAN : AppSend(t, ok)
  \/ \E t \in Threads, u \in Users : PurgeBegin(t, u)
  \/ \E t \in Threads : PurgeWrite(t)
  \/ \E t \in Threads : PurgeDone(t)

InitApp == Init /\ impl = "ShopeeChatBot"
SpecApp == InitApp /\ [][NextApp]_vars

(***************************************************************************)
(* launcher.py: BotController (launcher.py:169-244).  start and stop run   *)
(* on the thread of the window, _run_bot on a thread of its own for every  *)
(* start.  A thread of _run_bot is in "setup" (setup_browser and           *)
(* navigate_to_chat), at a "test" of stop_event (shopee_bot.py:377, 385,   *)
(* 402), at "work" between two tests (a chat and its pause, a second of    *)
(* the wait, the backoff) or "ended".                                      *)
(***************************************************************************)
CtlStep == UNCHANGED <<impl, chatVars, botVars, engineVars, locVars, appVars, stopInChat, secVars>>

\* threading.Thread.is_alive() of thread k.
Alive(k) == worker[k] \in {"setup", "test", "work"}

\* BotController.start (launcher.py:178-204); keyOk: GEMINI_API_KEY is set.
start(keyOk) ==
  /\ gui = "idle"
  /\ CtlStep
  /\ IF is_running \/ ~keyOk
       THEN UNCHANGED ctlVars
       ELSE \E k \in WorkerIds :
              /\ worker[k] = "none"
              /\ \A j \in WorkerIds : j < k => worker[j] # "none"
              /\ ctl_stop_event' = FALSE
              /\ bot_thread' = k
              /\ worker' = [worker EXCEPT ![k] = "setup"]
              /\ is_running' = TRUE
              /\ UNCHANGED <<gui, stopCalled>>

\* BotController.stop up to its join (launcher.py:206-216).
stop ==
  /\ gui = "idle"
  /\ CtlStep
  /\ IF ~is_running
       THEN UNCHANGED ctlVars
       ELSE /\ ctl_stop_event' = TRUE
            /\ is_running' = FALSE
            /\ stopCalled' = stopCalled \cup {k \in WorkerIds : k = bot_thread /\ Alive(k)}
            /\ gui' = IF bot_thread # 0 /\ Alive(bot_thread) THEN "joining" ELSE "idle"
            /\ UNCHANGED <<bot_thread, worker>>

\* join(timeout=5) returns (launcher.py:216): the thread has ended, or five
\* seconds have passed and it has not.
join_returns ==
  /\ gui = "joining"
  /\ CtlStep
  /\ gui' = "idle"
  /\ UNCHANGED <<is_running, ctl_stop_event, bot_thread, worker, stopCalled>>

\* "finally: self.is_running = False" of _run_bot (launcher.py:242-244),
\* after bot.run has returned or raised.
run_bot_ends(k) ==
  /\ worker' = [worker EXCEPT ![k] = "ended"]
  /\ is_running' = FALSE

\* _run_bot up to the loop of ShopeeBot.run (launcher.py:220-236,
\* shopee_bot.py:366-370); ok is FALSE when the import, the browser or the
\* navigation raises.
run_bot_setup(k, ok) ==
  /\ worker[k] = "setup"
  /\ CtlStep
  /\ IF ok THEN worker' = [worker EXCEPT ![k] = "test"] /\ UNCHANGED is_running
           ELSE run_bot_ends(k)
  /\ UNCHANGED <<ctl_stop_event, bot_thread, gui, stopCalled>>

\* A test of stop_event.is_set() in ShopeeBot.run (shopee_bot.py:377,
\* 385-386, 402-403): set, the loop ends and run returns through cleanup.
run_bot_test(k) ==
  /\ worker[k] = "test"
  /\ CtlStep
  /\ IF ctl_stop_event THEN run_bot_ends(k)
                       ELSE worker' = [worker EXCEPT ![k] = "work"] /\ UNCHANGED is_running
  /\ UNCHANGED <<ctl_stop_event, bot_thread, gui, stopCalled>>

\* What ShopeeBot.run does between two tests (shopee_bot.py:380-404).
run_bot_work(k) ==
  /\ worker[k] = "work"
  /\ CtlStep
  /\ worker' = [worker EXCEPT ![k] = "test"]
  /\ UNCHANGED <<is_running, ctl_stop_event, bot_thread, gui, stopCalled>>

\* The steps of thread k.
WorkerNext(k) ==
  \/ \E ok \in BOOLEAN : run_bot_setup(k, ok)
  \/ run_bot_test(k)
  \/ run_bot_work(k)

NextCtl ==
  \/ \E keyOk \in BOOLEAN : start(keyOk)
  \/ stop
  \/ join_returns
  \/ \E k \in WorkerIds, ok \in BOOLEAN : run_bot_setup(k, ok)
  \/ \E k \in WorkerIds : run_bot_test(k)
  \/ \E k \in WorkerIds : run_bot_work(k)

InitCtl == Init /\ impl = "ShopeeBot"
SpecCtl == InitCtl /\ [][NextCtl]_vars
\* Every started thread is scheduled again and again, and what it does
\* between two tests of the event takes finite time.
SpecCtlFair == SpecCtl /\ \A k \in WorkerIds : WF_vars(WorkerNext(k))

(***************************************************************************)
(* Claims                                                                  *)
(***************************************************************************)
\* A step that starts a run of process_conversation, and the key it computes.
Begins == pc = "idle" /\ pc' # "idle"
BegunKey == generate_hash(run'.cid, run'.msg)
\* The run that starts is skipped as already replied: no backend call, no
\* send, no store touched.
SkippedAsDuplicate ==
  /\ pc' = "done"
  /\ run'.outcome = "dup"
  /\ run'.backend = "none"
  /\ ~run'.clicked
  /\ UNCHANGED <<stores, sendCount, nSent, everMarked, appended>>

\* C1 (idempotent reply): a run of process_conversation for a pair (c, m) for
\* which an earlier run of this process sent the reply and marked it calls
\* neither the backend nor the send and changes no store; so the two runs
\* together make exactly one send and one mark_replied call for (c, m).
C1_Step ==
  /\ (Begins /\ BegunKey \in lifeMarked) => SkippedAsDuplicate
  /\ \A k \in lifeMarked : sendCount'[k] = sendCount[k]
  /\ (pc = "sent" /\ pc' = "marked") => Key \notin lifeMarked
C1_IdempotentReply == [][C1_Step]_vars
\* The second run for (c, m), skipped, after exactly one send.
C1_Witness ==
  /\ pc = "done"
  /\ run.outcome = "dup"
  /\ Key \in lifeMarked
  /\ sendCount[Key] = 1

C3_StableKey ==
  [][(Begins /\ run'.msg # NoMessage /\ answeredAs[<<run'.p, run'.msg>>] # {})
       => BegunKey \in answeredAs[<<run'.p, run'.msg>>]]_vars

\* C4 (duplicate only through the crash window): a reply for the same key is
\* delivered twice only if the process crashed after the send and before the
\* key was persisted.
C4_DuplicateOnlyByCrash ==
  \A k \in AllKeys : sendCount[k] >= 2 => k \in crashWin

\* The stores as they were when the current run began.
SnapHashes == run.snap[1]
SnapHashFile == run.snap[2]
SnapConversations == run.snap[3]
SnapConvFile == run.snap[4]
SnapStats == run.snap[5]
\* A run has ended with a failed send: the input box or the send control was
\* not located, or a browser operation raised.
SendFailed == pc = "done" /\ run.outcome \in {"notfound", "raised"}
\* What a failed send leaves alone: the dedup set, the history and the reply
\* counter, in memory and on disk; the message is still unreplied, so the
\* next run for it is not skipped.
FailedSendLeavesNoTrace ==
  /\ replied_hashes = SnapHashes
  /\ replied_file = SnapHashFile
  /\ conversations = SnapConversations
  /\ conv_file = SnapConvFile
  /\ stats.total_replies = SnapStats.total_replies
  /\ ~is_replied(replied_hashes, run.cid, run.msg)

\* The same for ShopeeBot.process_chat: the input box was not located, or
\* typing or sending raised.
ChatSendFailed == botPc = "done" /\ chat.outcome \in {"notfound", "raised"}
\* ShopeeBot counts an error in both cases and does not mark the chat.
ChatSendFailureCounted ==
  /\ processed_messages = chat.snap[1]
  /\ chat.id \notin processed_messages
  /\ replies_sent = chat.snap[2][2]
  /\ errors_count = chat.snap[2][3] + 1

\* C5 as stated (send failure): whenever the send fails, the message is not
\* marked, the history is unchanged, the message stays eligible, and the
\* error counter has gone up by one.
C5_FailedSendCounted ==
  /\ SendFailed => (FailedSendLeavesNoTrace /\ stats.errors = SnapStats.errors + 1)
  /\ ChatSendFailed => ChatSendFailureCounted
\* C5 as amended: whenever the send fails, the message is not marked, the
\* history is unchanged and the message stays eligible.  ShopeeBot has
\* counted one error; ShopeeChatBot has counted one error if a browser
\* operation raised and none if the input box or the send control was not
\* located.
C5_FailedSendCountedWhenRaised ==
  /\ SendFailed =>
        /\ FailedSendLeavesNoTrace
        /\ stats.errors = SnapStats.errors + (IF run.outcome = "raised" THEN 1 ELSE 0)
        /\ stats_file = stats
  /\ ChatSendFailed => ChatSendFailureCounted
\* A run that ended because the input box or send control was not located.
C5_Witness ==
  /\ pc = "done"
  /\ run.outcome = "notfound"
  /\ run.backend # "none"
  /\ stats.errors = SnapStats.errors

\* C6 (backend failure): when the backend call fails and the page works, the
\* text sent is exactly the fallback reply and the error counter has gone up
\* by one.
C6_BackendFailureCounted ==
  (pc = "done" /\ run.outcome = "replied" /\ run.backend = "fail")
    => (run.sentText = FALLBACK_REPLY /\ stats.errors = SnapStats.errors + 1)

\* C7 (no half-typed message): a run ends either with the whole reply typed
\* and sent or with no character of the reply left in the input box.
C7_NoHalfTyped ==
  pc = "done" =>
    \/ run.clicked /\ run.sentText = run.reply /\ inputBox = <<>>
    \/ ~run.clicked /\ inputBox = <<>>

RECURSIVE SentIn(_, _)
SentIn(c, ms) ==
  IF ms = {} THEN 0
  ELSE LET m == CHOOSE x \in ms : TRUE
       IN  sendCount[generate_hash(c, m)] + SentIn(c, ms \ {m})
Min(a, b) == IF a <= b THEN a ELSE b
BetweenRuns == pc \in {"idle", "done"}

Paired(lst) ==
  /\ Len(lst) % 2 = 0
  /\ \A i \in 1..Len(lst) :
       lst[i].role = IF i % 2 = 1 THEN "user" ELSE "assistant"
\* The exchange of the current run.
Exchange == <<Turn("user", run.msg), Turn("assistant", run.reply)>>

PipelineSteps == {"open", "extract", "generate", "type", "send"}

\* C11 (per-conversation error containment): when the processing of one
\* conversation has raised at any step (open, extract, generate, type,
\* send), the error counter has gone up by one for it, and the rest of the
\* cycle goes on.
C11_ErrorCountedAndContained ==
  lastStep.raisedAt \in PipelineSteps =>
    /\ lastStep.counted = 1
    /\ enginePc \in {"pause", "sleep"}

\* The cycle's pass over the unread conversations is over and was not cut
\* short by the stop signal.
CycleOver == enginePc \in {"wait", "sleep"} /\ ~stop_event

\* C12 (every unread conversation of a cycle is processed): when a cycle
\* that found k >= 1 unread conversations on the page is over, each of the
\* k was opened and run through the pipeline in that cycle.
C12_EveryUnreadProcessed ==
  CycleOver => cycleFound \subseteq cycleRun

(***************************************************************************)
(* ShopeeBot.run with no failing component and no stop signal: the browser *)
(* starts, the page is the chat page, every call succeeds.  The event loop *)
(* runs the coroutine whenever it can take a step, hence the weak fairness *)
(* of the engine's steps; the buyers' messages come when they come.        *)
(***************************************************************************)
InitLive == Init /\ impl = "ShopeeBot"

LiveStep ==
  \/ setup_browser("ok")
  \/ navigate_to_chat("ok", {"chat"})
  \/ \E idOf \in IdReadings : LoopHead(idOf, TRUE)
  \/ ForChat("replied")
  \/ \E d \in BetweenSeconds : Pause(d)
  \/ \E w \in CheckInterval : EndChats(w)
  \/ WaitSecond

NextLive == LiveStep \/ \E c \in BotChats : NewMessage(c)

SpecLive == InitLive /\ [][NextLive]_vars /\ WF_vars(LiveStep)

\* A chat whose item carries a data-id attribute.
DataIdChat == "P"

\* C13 (every new buyer message is eventually answered): with nothing
\* failing, a new message in a conversation this process has already
\* answered once is eventually opened and replied to (or the reply budget of
\* the model is used up first).
C13_NewMessageAnswered ==
  (DataIdChat \in answered /\ DataIdChat \in pageUnread)
    ~> (DataIdChat \notin pageUnread \/ replies_sent = MaxReplies)

\* The states of the polling loop.
LoopStates == {"loop", "chats", "pause", "wait", "sleep"}
\* The error counter of the program that runs.
ErrorsCounted == IF impl = "ShopeeBot" THEN errors_count ELSE stats.errors

\* One step of the engine keeps to C14.
C14_Step ==
  /\ (enginePc \in LoopStates /\ enginePc' \notin LoopStates) => stop_event'
  /\ (lastStep'.raisedAt = "loop" /\ lastStep.raisedAt # "loop") =>
       /\ enginePc \in LoopStates
       /\ enginePc' = "loop"
       /\ ErrorsCounted' = ErrorsCounted + 1
\* C14 (the polling loop is left only by the stop signal): no step takes the
\* engine out of the loop unless the stop signal is set, and an exception
\* that reaches the handler of the loop is counted, slept on for the fixed
\* backoff and followed by the next cycle.
C14_LoopLeftOnlyByStop == [][C14_Step]_vars
\* Polling again after an exception in the loop, with no stop signal.
C14_Witness ==
  /\ enginePc = "loop"
  /\ lastStep.raisedAt = "loop"
  /\ ErrorsCounted = 1
  /\ ~stop_event
\* C14 as stated: every exception raised inside a cycle, conversation-scoped
\* or not, is followed by the backoff sleep and then by polling.
C14_EveryExceptionBacksOff ==
  (lastStep.raisedAt # "none" /\ ~stop_event) => enginePc = "loop"

\* C15 (bounded authentication wait): when the location after navigation is
\* an authentication page and has been one at every poll since, the engine
\* is not polling and has processed no conversation, and once run has
\* returned the browser context is closed.
C15_AuthTimeoutIsFatal ==
  stayedAuth =>
    /\ enginePc \notin LoopStates
    /\ messages_processed = 0 /\ stats.total_replies = 0
    /\ enginePc = "returned" => context = "closed"

\* C16 (stop-signal responsiveness): no sleep of the engine goes on for
\* more than one second with the stop signal set and not looked at.
C16_StopSeenWithinASecond == lag <= 1

\* C17 (shutdown liveness): once the stop signal is set the engine leaves
\* the loop and run returns, and whenever run has returned (after the stop
\* signal, the fatal end of the authentication wait or an unexpected
\* exception) no browser context is left open.
C17_ShutdownLiveness ==
  /\ [](stop_event => <>(enginePc = "returned"))
  /\ [](enginePc = "returned" => context # "open")


(***************************************************************************)
(* Claims about the order of the steps of one run.                         *)
(***************************************************************************)
\* In the list s every occurrence of step b has an occurrence of a before it.
Before(s, a, b) ==
  \A j \in 1..Len(s) : s[j] = b => \E i \in 1..(j - 1) : s[i] = a
\* The order of C18.
Ordered(s) ==
  /\ Before(s, "extract", "dedup")
  /\ Before(s, "dedup", "generate")
  /\ Before(s, "generate", "send")
  /\ Before(s, "generate", "mark")

\* C18 (step ordering inside one conversation): in every run of the
\* pipeline the message is extracted before the dedup check, the dedup
\* check comes before the backend call, and the backend call before the
\* send and before the mark; no backend call or send goes without a dedup
\* check that follows the extraction.
C18_StepOrder == Ordered(run.steps) /\ Ordered(chat.steps)

(***************************************************************************)
(* Claims about the locator.                                               *)
(***************************************************************************)
\* The rules of the page that match a visible element.
RulesWithVisible(pg) ==
  {r \in 1..Len(pg.matches) :
     \E i \in 1..Len(pg.matches[r]) : pg.matches[r][i] \in pg.visible}
\* The visible elements rule r matches.
VisibleOf(pg, r) ==
  {pg.matches[r][i] : i \in 1..Len(pg.matches[r])} \cap pg.visible

\* C19 (locator fallback): the locator returns a visible element of the
\* first rule, in priority order, that matches a visible element, and None
\* only if no rule matches a visible element.
C19_FirstVisibleRuleWins ==
  located # "unset" =>
    LET rs == RulesWithVisible(page)
    IN  IF rs = {}
          THEN located = None
          ELSE located \in VisibleOf(page, CHOOSE r \in rs : \A q \in rs : r <= q)

\* C20 (dedup key-set cap): the tracked key set, in memory and as persisted,
\* never holds more than the cap, and right after a mark_replied call it
\* holds the most recently recorded keys: with the cap HASH_KEEP = 1, the key
\* just recorded and nothing else.
C20_KeySetCapped ==
  /\ Cardinality(replied_hashes) <= HASH_KEEP
  /\ Cardinality(replied_file) <= HASH_KEEP
  /\ pc = "marked" => (Key \in replied_hashes /\ Key \in replied_file)

(***************************************************************************)
(* Claims about the webhook server and about restarts.                     *)
(***************************************************************************)
\* C21 (non-text inbound messages): a message that is not text is never
\* submitted to the reply backend, the reply a request prepares for it is
\* the fixed acknowledgment, and the acknowledgment goes out at most once
\* per message.
C21_NonTextAckedOnce ==
  \A m \in AppMsgs :
    m.kind # "text" =>
      /\ m.id \notin appAsked
      /\ \A t \in Threads :
           (req[t].msg = m.id /\ req[t].pc = "send") => req[t].reply = ACK_REPLY
      /\ appSent[m.id] <= 1

\* Thread t ends the file work of a purge in this step.
PurgeEnds(t) ==
  \/ req[t].op # "purge" /\ req'[t].op = "purge" /\ req'[t].pc = "purged"
  \/ req[t].pc = "purge_write" /\ req'[t].pc = "purged"
\* One step keeps to C23.
C23_Step ==
  \A t \in Threads :
    PurgeEnds(t) =>
      /\ AppHistory(appFile', req'[t].user) = <<>>
      /\ \A d \in Users \ {req'[t].user} :
           AppHistory(appFile', d) = AppHistory(appFile, d)
\* C23 (purge): the purge of conversation c leaves the stored history of c
\* empty and the stored history of every other conversation as it was; with
\* no history for c it changes nothing and still succeeds.
C23_PurgeOnlyItsConversation == [][C23_Step]_vars

\* Operation with restarts and with writes of the stats file that fail
\* (_save logs the exception and goes on, main.py:272-278).
NextStatsFaulty == Pipeline({TRUE}, {TRUE}, BOOLEAN)
SpecStatsFaulty == InitFaulty /\ [][NextStatsFaulty]_vars

\* C22 (stats counters): no step, a record_reply, a record_error or a restart
\* that loads bot_stats.json included, lowers a counter of the stats record.
C22_CountersMonotone ==
  [][ /\ stats'.total_messages >= stats.total_messages
      /\ stats'.total_replies >= stats.total_replies
      /\ stats'.errors >= stats.errors ]_vars

\* C26 (concurrent requests): no update of the conversation store is lost:
\* the stored history of every user is the turns add_to_conversation has
\* added for the user since the last purge of the user, cut to the window.
C26_NoLostUpdate ==
  \A u \in Users :
    AppHistory(appFile, u) = LastN(appAdded[u], APP_MAX_CONVERSATION_HISTORY * 2)

(***************************************************************************)
(* Claims about the launcher.                                              *)
(***************************************************************************)
\* C24 (one worker): at any time at most one thread of _run_bot is alive.
C24_AtMostOneWorker == Cardinality({k \in WorkerIds : Alive(k)}) <= 1

\* C25 (stop is not lost): every thread that was the current one when stop
\* set the event ends.
C25_StoppedWorkerEnds ==
  \A k \in WorkerIds : (k \in stopCalled) ~> (worker[k] = "ended")

\* C28 (polling only on the chat surface): while the engine is in its polling
\* loop the location is the chat surface, not an authentication page.
C28_PollsOnlyOnChatSurface ==
  enginePc \in LoopStates => (IsChatUrl(location) /\ ~IsLoginUrl(location))

(***************************************************************************)
(* Claims about the typing and the send.                                   *)
(***************************************************************************)
\* C29 (type fully, pause, then send): in a send that has succeeded the send
\* button was clicked exactly once, as the last of the events sleep, hover,
\* pause, click, and everything before these events is the typing of the
\* whole reply.
C29_TypedThenSentOnce ==
  run.clicked =>
    LET n == Len(run.keys)
    IN  /\ n >= 4
        /\ SubSeq(run.keys, n - 3, n) = <<"sleep", "hover", "pause", "click">>
        /\ Cardinality({i \in 1..n : run.keys[i] = "click"}) = 1
        /\ \A i \in 1..(n - 4) : run.keys[i] \notin {"sleep", "hover", "pause", "click"}
        /\ SubSeq(run.keys, 1, n - 4) = run.reply
\* A reply has been typed and sent.
C29_Witness == run.clicked /\ run.keys = run.reply \o SendEvents

\* C30 (typo simulation preserves the text): no wrong character is typed
\* after the last character of the reply, and what a send submits is the
\* reply text.
C30_TypoPreservesText ==
  /\ ~chat.endTypo
  /\ run.clicked => run.sentText = run.reply
  /\ chat.clicked => chat.sentText = chat.reply

\* One step keeps to C27.
C27_Step ==
  /\ (stop_event /\ botPc \in {"typing", "presend"}) =>
       (botPc' \in {"typing", "presend", "done"} /\ enginePc' = enginePc)
  /\ (botPc = "idle" /\ botPc' # "idle") => ~stopInChat
\* C27 (cancellation granularity): with the stop signal set inside a
\* process_chat call, the typing and the send of the call go on as without
\* it, and no other chat of the pass through the list is started afterwards.
C27_StopAtChatBoundary == [][C27_Step]_vars

(***************************************************************************)
(* Claims about missing elements, the prompt, the interval and counters.   *)
(***************************************************************************)
\* C31 (element not found is not an error): a call that ends because the
\* input box or the send control was not located leaves the error counter
\* as it was when the call began.
C31_NotFoundNotCounted ==
  /\ (pc = "done" /\ run.outcome = "notfound") => stats.errors = SnapStats.errors
  /\ (botPc = "done" /\ chat.outcome = "notfound") => errors_count = chat.snap[2][3]

\* C32 (prompt assembly): the message list given to the reply backend is
\* the history of the conversation as it was before the exchange began,
\* followed by the new buyer message, once.
C32_PromptIsHistoryThenMessage ==
  \A t \in Threads :
    req[t].prompt # <<>> =>
      req[t].prompt = req[t].before \o <<AppTurn("user", req[t].msg)>>

\* C33 (poll interval bound): when a cycle of main_loop has found no unread
\* conversation, the seconds slept before the next cycle starts lie between
\* the minimum and the maximum of the poll interval.
C33_IntervalWithinBounds ==
  [][ (impl = "ShopeeChatBot" /\ enginePc = "sleep" /\ enginePc' = "loop"
         /\ cycleFound = {})
        => (lastStep'.slept >= REFRESH_MIN_SECONDS /\ lastStep'.slept <= REFRESH_MAX_SECONDS)
    ]_vars

\* One step keeps to C34.
C34_Step ==
  \A c \in Ids \ {run.cid} :
    /\ c \in DOMAIN conversations =>
         (c \in DOMAIN conversations' /\ conversations'[c] = conversations[c])
    /\ c \in DOMAIN conv_file =>
         (c \in DOMAIN conv_file' /\ conv_file'[c] = conv_file[c])
MainEngineNext ==
  \/ \E res \in SetupResults : initialize(res)
  \/ \E res \in GotoResults, url \in Locations : MainNavigate(res, url)
  \/ \E clickOk \in BOOLEAN, m \in Msgs \cup {NoMessage}, src \in EngineIdSources,
        outcome \in SendOutcomes, text \in AiReplies, seen \in BOOLEAN :
       MainCycle(clickOk, m, src, outcome, text, seen)
  \/ \E res \in {"ok", "timeout", "raises"}, w \in RefreshWaits : MainSleep(res, w)
  \/ MainCleanup

NextMain ==
  \/ MainEngineNext
  \/ KeyboardInterrupt
  \/ \E res \in GotoResults, url \in Locations : OperatorEnter(res, url)
  \/ \E c \in PhysConvs : NewMessage(c)

SpecMainFair == InitFaulty /\ [][NextMain]_vars /\ WF_vars(MainEngineNext)

\* C35: under fairness of the engine, a conversation that is unread while
\* main_loop runs is eventually opened by check_and_process_unread (or stops
\* being unread, or the engine is shut down), whatever happens to the unread
\* conversations listed before it.
C35_NoStarvation ==
  \A c \in PhysConvs :
    (enginePc = "loop" /\ c \in pageUnread)
      ~> (c \notin pageUnread \/ c \in cycleRun \/ enginePc \in {"cleanup", "returned"})

\* C36: in every reachable state the replies the stats record counts as sent
\* are at most the messages it counts as processed, in StatsTracker
\* (total_replies, total_messages) and in ShopeeBot (replies_sent,
\* messages_processed).
C36_RepliesAtMostProcessed ==
  /\ stats.total_replies <= stats.total_messages
  /\ replies_sent <= messages_processed

(***************************************************************************)
(* The rate limiter of server_secure.py: RateLimiter (security.py:35-137). *)
(* Each caller is a thread inside check_rate_limit or                      *)
(* record_failed_attempt; the list of request times behind the rate check  *)
(* is not followed, so what the rate check answers is an input.            *)
(***************************************************************************)
MAX_FAILED_ATTEMPTS == 5
LimiterOps == {"check_rate_limit", "record_failed_attempt"}

\* A step of the login protection leaves the bots and their servers alone.
SecStep == UNCHANGED <<impl, chatVars, botVars, engineVars, locVars, appVars,
                       ctlVars, stopInChat>>

\* A request calls check_rate_limit (security.py:145, auth.py:467) or a
\* failed login calls record_failed_attempt (server_secure.py:220-221); the
\* thread comes to "with self.lock".
CallLimiter(t, op, ip) ==
  /\ limCall[t].pc = "idle"
  /\ SecStep
  /\ limCall' = [limCall EXCEPT ![t] = [pc |-> "acquire", op |-> op, ip |-> ip,
                                        ret |-> "none", n |-> 0]]
  /\ UNCHANGED <<failed_attempts, blocked_ips, lock, userRow, login_attempts,
                 wallClock>>

\* "with self.lock" of threading.Lock, which is not reentrant: the thread
\* gets the lock when it is unlocked, whoever locked it, and runs the body
\* up to the next lock or to the end of the with block.
\*   record_failed_attempt (security.py:87-92): the count goes up by one, and
\*     at max_failed_attempts block_ip is called, which comes to its own
\*     "with self.lock" (security.py:82);
\*   block_ip (security.py:82-85): the address is entered in blocked_ips;
\*   check_rate_limit (security.py:108-125): is_blocked drops an entry that
\*     has expired and resets the count (security.py:71-78).
LockAcquire(t, expired, allowed) ==
  LET c == limCall[t]
      n == failed_attempts[c.ip] + 1
  IN  /\ c.pc \in {"acquire", "block_acquire"}
      /\ ~lock
      /\ SecStep
      /\ lock' = TRUE
      /\ IF c.pc = "block_acquire"
           THEN /\ expired /\ allowed
                /\ blocked_ips' = blocked_ips \cup {c.ip}
                /\ limCall' = [limCall EXCEPT ![t].pc = "block_body"]
                /\ UNCHANGED failed_attempts
         ELSE IF c.op = "record_failed_attempt"
           THEN /\ expired /\ allowed
                /\ failed_attempts' = [failed_attempts EXCEPT ![c.ip] = n]
                /\ limCall' = [limCall EXCEPT ![t].n = n, ![t].pc =
                                 IF n >= MAX_FAILED_ATTEMPTS THEN "block_acquire"
                                 ELSE "body"]
                /\ UNCHANGED blocked_ips
         ELSE IF c.ip \in blocked_ips /\ ~expired
           THEN /\ allowed
                /\ limCall' = [limCall EXCEPT ![t].pc = "body", ![t].ret = "false"]
                /\ UNCHANGED <<failed_attempts, blocked_ips>>
         ELSE /\ (c.ip \notin blocked_ips => expired)
              /\ blocked_ips' = blocked_ips \ {c.ip}
              /\ failed_attempts' = IF c.ip \in blocked_ips
                                      THEN [failed_attempts EXCEPT ![c.ip] = 0]
                                      ELSE failed_attempts
              /\ limCall' = [limCall EXCEPT ![t].pc = "body",
                               ![t].ret = IF allowed THEN "true" ELSE "false"]
      /\ UNCHANGED <<userRow, login_attempts, wallClock>>

\* The end of a with block unlocks the lock.  After block_ip the caller is
\* back in record_failed_attempt at "return True" (security.py:93); the
\* other bodies return what they have computed, record_failed_attempt False
\* (security.py:94).
LockRelease(t) ==
  LET c == limCall[t]
  IN  /\ c.pc \in {"body", "block_body"}
      /\ SecStep
      /\ lock' = FALSE
      /\ limCall' = [limCall EXCEPT ![t] =
           IF c.pc = "block_body" THEN [c EXCEPT !.pc = "body", !.ret = "true"]
           ELSE [c EXCEPT !.pc = "idle",
                          !.ret = IF c.ret = "none" THEN "false" ELSE c.ret]]
      /\ UNCHANGED <<failed_attempts, blocked_ips, userRow, login_attempts,
                     wallClock>>

NextLimiter ==
  \/ \E t \in Callers, op \in LimiterOps, ip \in IPs : CallLimiter(t, op, ip)
  \/ \E t \in Callers, expired \in BOOLEAN, allowed \in BOOLEAN :
       LockAcquire(t, expired, allowed)
  \/ \E t \in Callers : LockRelease(t)

InitSec == Init /\ impl = "ShopeeBot"
SpecLimiter == InitSec /\ [][NextLimiter]_vars

\* The threads of the server keep running: a thread that waits for the lock
\* gets it if the lock keeps coming free, and a thread inside a with block
\* comes to its end.  Requests come when they will.
SpecLimiterFair ==
  /\ SpecLimiter
  /\ \A t \in Callers :
       /\ SF_vars(\E expired \in BOOLEAN, allowed \in BOOLEAN :
                    LockAcquire(t, expired, allowed))
       /\ WF_vars(LockRelease(t))

\* C37: every call of record_failed_attempt returns, whatever the address and
\* the count of failures before it, and a call that brings the count to
\* max_failed_attempts returns True with the address in blocked_ips; no
\* caller waits for the limiter's lock for ever.
C37_AlwaysReturns ==
  /\ \A t \in Callers : (limCall[t].pc # "idle") ~> (limCall[t].pc = "idle")
  /\ [](\A t \in Callers :
          (limCall[t].pc = "idle" /\ limCall[t].op = "record_failed_attempt") =>
            /\ (limCall[t].ret = "true") = (limCall[t].n >= MAX_FAILED_ATTEMPTS)
            /\ limCall[t].ret = "true" => limCall[t].ip \in blocked_ips)

(***************************************************************************)
(* The lockout of the login: Database.verify_user (database.py:190-246)    *)
(* for the row of one user that exists and is active, and the login of     *)
(* api/index.py (lines 322-346) with check_login_lockout and               *)
(* record_login_attempt for one address.  The clock counts minutes.        *)
(***************************************************************************)
MaxClock == 32
\* "if new_attempts >= 5" and timedelta(minutes=15) (database.py:236-237)
DB_MAX_ATTEMPTS == 5
DB_LOCK_MINUTES == 15
\* MAX_LOGIN_ATTEMPTS and LOGIN_LOCKOUT_MINUTES (api/index.py:45-46)
MAX_LOGIN_ATTEMPTS == 5
LOGIN_LOCKOUT_MINUTES == 15

\* "datetime.now() < locked_until" for a value that is not NULL / None.
StillLocked(until) == until # NoTime /\ wallClock < Head(until)

\* A wrong password that is checked lengthens the streak, which starts
\* again after a lockout that has expired.
NextStreak(streak, until) == IF until # NoTime THEN 1 ELSE streak + 1

\* verify_user (database.py:190-246); passwordOk: verify_password is true.
verify_user(passwordOk) ==
  LET new_attempts == userRow.failed_attempts + 1
      locked_until == IF new_attempts >= DB_MAX_ATTEMPTS
                        THEN At(wallClock + DB_LOCK_MINUTES) ELSE NoTime
  IN  /\ SecStep
      /\ userRow' =
           IF StillLocked(userRow.locked_until) THEN userRow
           ELSE IF passwordOk THEN NewUserRow
           ELSE [failed_attempts |-> new_attempts, locked_until |-> locked_until,
                 streak |-> NextStreak(userRow.streak, userRow.locked_until)]
      /\ UNCHANGED <<failed_attempts, blocked_ips, lock, limCall, login_attempts,
                     wallClock>>

\* check_login_lockout (api/index.py:174-187): what it leaves of the record.
check_login_lockout(record) ==
  IF record.lockout_until # NoTime /\ ~StillLocked(record.lockout_until)
    THEN [record EXCEPT !.attempts = 0, !.lockout_until = NoTime, !.streak = 0]
    ELSE record

\* record_login_attempt (api/index.py:189-196)
record_login_attempt(record, success) ==
  LET attempts == record.attempts + 1
  IN  IF success THEN NewLoginRecord
      ELSE [attempts |-> attempts,
            lockout_until |-> IF attempts >= MAX_LOGIN_ATTEMPTS
                                THEN At(wallClock + LOGIN_LOCKOUT_MINUTES)
                                ELSE record.lockout_until,
            streak |-> record.streak + 1]

\* login of api/index.py (lines 322-346): a locked address is turned away,
\* any other attempt is checked and recorded.
index_login(passwordOk) ==
  /\ SecStep
  /\ login_attempts' =
       IF StillLocked(login_attempts.lockout_until) THEN login_attempts
       ELSE record_login_attempt(check_login_lockout(login_attempts), passwordOk)
  /\ UNCHANGED <<failed_attempts, blocked_ips, lock, limCall, userRow, wallClock>>

\* A minute passes.
Minute ==
  /\ wallClock < MaxClock
  /\ SecStep
  /\ wallClock' = wallClock + 1
  /\ UNCHANGED <<failed_attempts, blocked_ips, lock, limCall, userRow,
                 login_attempts>>

NextLockout ==
  \/ \E passwordOk \in BOOLEAN : verify_user(passwordOk)
  \/ \E passwordOk \in BOOLEAN : index_login(passwordOk)
  \/ Minute

SpecLockout == InitSec /\ [][NextLockout]_vars

\* C38: a lockout that has expired starts the count again: the account (the
\* address) is locked only when five wrong passwords in a row were checked
\* since the last success or the last expired lockout, so after an expiry
\* four wrong passwords, and the first one among them, leave it open.
C38_LockoutResetsAfterExpiry ==
  /\ StillLocked(userRow.locked_until) => userRow.streak >= DB_MAX_ATTEMPTS
  /\ StillLocked(login_attempts.lockout_until) =>
       login_attempts.streak >= MAX_LOGIN_ATTEMPTS

====
